---- MODULE Spec2Model ----
(***************************************************************************)
(* Model of the architecture-visualizer dependency graph engine:           *)
(*   utils/graph-utils (buildGraph, Tarjan SCC, findCycles, severity,      *)
(*   suggestions, isDAG), tools/dependency-graph, tools/module-mapper and  *)
(*   the directory scanners / dependency classifier of the parsers.        *)
(***************************************************************************)
EXTENDS Integers, Sequences, FiniteSets, TLC

VARIABLES
    done,            \* set of operations that have completed
    relationships,   \* Relationship[] handed to buildGraph
    graph,           \* graphlib Graph: [nodes |-> Seq, edges |-> Seq]
    cycles,          \* DependencyCycle[] returned by findCycles
    dag,             \* boolean returned by isDAG
    inputPath,       \* input.path of a tool call
    excludeOpt,      \* input.exclude
    includeExternal, \* input.includeExternal
    fileImports,     \* the import specifiers written in each source file
    depOut,          \* GenerateDependencyGraphOutput
    mapOut,          \* ModuleRelationshipResult
    callArgs,        \* arguments of the call under study in the other specifications
    callResult       \* what that call returned

vars == <<done, relationships, graph, cycles, dag,
          inputPath, excludeOpt, includeExternal, fileImports, depOut, mapOut,
          callArgs, callResult>>

----------------------------------------------------------------------------
(* Bounds *)

NumNodes == 3
MaxRels == 4
MaxImports == 3
MaxFunctions == 2
MaxLines == 3
LargeGraphNodes == 101
MaxCyclesArg == 3
MaxServerImports == 2

NodeNames == <<"A", "B", "C", "D", "E", "F">>
Nodes == {NodeNames[i] : i \in 1..NumNodes}

----------------------------------------------------------------------------
(* Sequence helpers (Array.prototype methods used by the code) *)

SeqToSet(s) == {s[i] : i \in DOMAIN s}

includes(s, x) == \E i \in DOMAIN s : s[i] = x

reverse(s) == [i \in 1..Len(s) |-> s[Len(s) + 1 - i]]

Min(a, b) == IF a < b THEN a ELSE b

SeqsUpTo(S, n) == UNION {[1..k -> S] : k \in 0..n}

----------------------------------------------------------------------------
(* graphlib Graph, as used through buildGraph *)

EmptyGraph == [nodes |-> <<>>, edges |-> <<>>]

hasNode(g, n) == includes(g.nodes, n)

setNode(g, n) == IF hasNode(g, n) THEN g ELSE [g EXCEPT !.nodes = Append(@, n)]

hasEdge(g, v, w) == \E i \in DOMAIN g.edges : g.edges[i].v = v /\ g.edges[i].w = w

\* graph.setEdge(v, w, label): an existing edge only has its label replaced
setEdge(g, v, w, label) ==
    IF hasEdge(g, v, w)
    THEN [g EXCEPT !.edges = [i \in DOMAIN g.edges |->
             IF g.edges[i].v = v /\ g.edges[i].w = w
             THEN [g.edges[i] EXCEPT !.label = label]
             ELSE g.edges[i]]]
    ELSE LET g2 == setNode(setNode(g, v), w)
         IN [g2 EXCEPT !.edges = Append(@, [v |-> v, w |-> w, label |-> label])]

edge(g, v, w) == LET i == CHOOSE i \in DOMAIN g.edges : g.edges[i].v = v /\ g.edges[i].w = w
                 IN g.edges[i].label

successors(g, n) ==
    LET es == SelectSeq(g.edges, LAMBDA e : e.v = n)
    IN [i \in 1..Len(es) |-> es[i].w]

predecessors(g, n) ==
    LET es == SelectSeq(g.edges, LAMBDA e : e.w = n)
    IN [i \in 1..Len(es) |-> es[i].v]

RECURSIVE buildGraphFrom(_, _, _)
buildGraphFrom(g, rels, i) ==
    IF i > Len(rels) THEN g
    ELSE LET rel == rels[i]
             g1 == setNode(g, rel.source)
             g2 == setNode(g1, rel.target)
             g3 == setEdge(g2, rel.source, rel.target,
                           [type |-> rel.type, weight |-> rel.weight])
         IN buildGraphFrom(g3, rels, i + 1)

buildGraph(rels) == buildGraphFrom(EmptyGraph, rels, 1)

----------------------------------------------------------------------------
(* Tarjan's algorithm *)

TarjanInit == [indices |-> <<>>, lowLinks |-> <<>>, onStack |-> {},
               stack |-> <<>>, sccs |-> <<>>, index |-> 0]

\* Map.set
MapSet(m, k, v) == [x \in (DOMAIN m) \cup {k} |-> IF x = k THEN v ELSE m[x]]

\* do { w = stack.pop(); onStack.delete(w); scc.push(w) } while (w !== node)
RECURSIVE popScc(_, _, _)
popScc(st, scc, node) ==
    LET w == st.stack[Len(st.stack)]
        st1 == [st EXCEPT !.stack = SubSeq(@, 1, Len(@) - 1),
                          !.onStack = @ \ {w}]
        scc1 == Append(scc, w)
    IN IF w # node THEN popScc(st1, scc1, node) ELSE [st |-> st1, scc |-> scc1]

SccKept(scc) == Len(scc) >= 1

SccRetained(scc) == Len(scc) > 1

lowLinkIgnoringBackEdge(st, node, successor) == st.lowLinks[node]

\* lowLinks.set(node, Math.min(lowLinks.get(node), indices.get(successor)))
lowLinkOnStack(st, node, successor) == Min(st.lowLinks[node], st.indices[successor])

RECURSIVE strongConnect(_, _, _)
RECURSIVE visitSuccessors(_, _, _, _, _)

visitSuccessors(g, node, succs, i, st) ==
    IF i > Len(succs) THEN st
    ELSE LET successor == succs[i]
             st1 == IF successor \notin DOMAIN st.indices
                    THEN LET r == strongConnect(g, successor, st)
                         IN [r EXCEPT !.lowLinks =
                               MapSet(@, node, Min(r.lowLinks[node], r.lowLinks[successor]))]
                    ELSE IF successor \in st.onStack
                    THEN [st EXCEPT !.lowLinks =
                               MapSet(@, node, lowLinkOnStack(st, node, successor))]
                    ELSE st
         IN visitSuccessors(g, node, succs, i + 1, st1)

strongConnect(g, node, st) ==
    LET st1 == [st EXCEPT !.indices = MapSet(@, node, st.index),
                          !.lowLinks = MapSet(@, node, st.index),
                          !.index = @ + 1,
                          !.stack = Append(@, node),
                          !.onStack = @ \cup {node}]
        st2 == visitSuccessors(g, node, successors(g, node), 1, st1)
    IN IF st2.lowLinks[node] = st2.indices[node]
       THEN LET p == popScc(st2, <<>>, node)
            IN IF SccRetained(p.scc)
               THEN [p.st EXCEPT !.sccs = Append(@, reverse(p.scc))]
               ELSE p.st
       ELSE st2

RECURSIVE tarjanLoop(_, _, _)
tarjanLoop(g, i, st) ==
    IF i > Len(g.nodes) THEN st
    ELSE tarjanLoop(g, i + 1,
                    IF g.nodes[i] \notin DOMAIN st.indices
                    THEN strongConnect(g, g.nodes[i], st)
                    ELSE st)

findStronglyConnectedComponents(g) == tarjanLoop(g, 1, TarjanInit).sccs

----------------------------------------------------------------------------
(* Severity, suggestions, findCycles *)

RECURSIVE SumSeq(_)
SumSeq(s) == IF s = <<>> THEN 0 ELSE s[1] + SumSeq(Tail(s))

\* the number of distinct nodes outside the cycle with an edge into it
affectedNodesDistinct(cycle, g) ==
    Cardinality({p \in SeqToSet(g.nodes) :
                   /\ ~includes(cycle, p)
                   /\ \E i \in DOMAIN cycle : includes(predecessors(g, cycle[i]), p)})

\* affectedNodes += predecessors.filter(p => !cycle.includes(p)).length
affectedNodes(cycle, g) ==
    SumSeq([i \in 1..Len(cycle) |->
              Len(SelectSeq(predecessors(g, cycle[i]), LAMBDA p : ~includes(cycle, p)))])

severityOfMediumAtFour(length, affected) ==
    IF length >= 5 \/ affected >= 10 THEN "critical"
    ELSE IF length >= 4 \/ affected >= 5 THEN "high"
    ELSE IF length >= 4 \/ affected >= 2 THEN "medium"
    ELSE "low"

severityOf(length, affected) ==
    IF length >= 5 \/ affected >= 10 THEN "critical"
    ELSE IF length >= 4 \/ affected >= 5 THEN "high"
    ELSE IF length >= 3 \/ affected >= 2 THEN "medium"
    ELSE "low"

determineCycleSeverity(cycle, g) == severityOf(Len(cycle), affectedNodes(cycle, g))

\* the weakest link: the first edge along the cycle with the lowest weight
\* (a missing edge counts as weight 1)
edgeWeight(g, from, to) == IF hasEdge(g, from, to) THEN edge(g, from, to).weight ELSE 1

RECURSIVE weakestFrom(_, _, _, _, _)
weakestFrom(cycle, g, i, minWeight, weakest) ==
    IF i > Len(cycle) THEN weakest
    ELSE LET from == cycle[i]
             to == cycle[(i % Len(cycle)) + 1]
             weight == edgeWeight(g, from, to)
         IN IF minWeight = -1 \/ weight < minWeight
            THEN weakestFrom(cycle, g, i + 1, weight, <<from, to>>)
            ELSE weakestFrom(cycle, g, i + 1, minWeight, weakest)

GenericSuggestions == <<"Extract shared code", "Use dependency injection",
                        "Consider using interfaces/protocols", "Evaluate design issue">>

generateCycleSuggestions(cycle, g) ==
    LET weakestEdge == weakestFrom(cycle, g, 1, -1, <<>>)
    IN (IF weakestEdge # <<>> THEN <<weakestEdge>> ELSE <<>>) \o GenericSuggestions

SeverityOrder == <<"critical", "high", "medium", "low">>

sortByLength(cs) ==
    SelectSeq(cs, LAMBDA c : c.length >= 3) \o SelectSeq(cs, LAMBDA c : c.length < 3)

\* Array.prototype.sort is stable: equal severities keep their relative order
sortBySeverity(cs) ==
    SelectSeq(cs, LAMBDA c : c.severity = "critical") \o
    SelectSeq(cs, LAMBDA c : c.severity = "high") \o
    SelectSeq(cs, LAMBDA c : c.severity = "medium") \o
    SelectSeq(cs, LAMBDA c : c.severity = "low")

findCycles(g) ==
    LET sccs == findStronglyConnectedComponents(g)
    IN sortBySeverity([i \in 1..Len(sccs) |->
         [nodes |-> sccs[i],
          length |-> Len(sccs[i]),
          severity |-> determineCycleSeverity(sccs[i], g),
          description |-> sccs[i] \o <<sccs[i][1]>>,
          suggestions |-> generateCycleSuggestions(sccs[i], g)]])

----------------------------------------------------------------------------
(* isDAG: graphlib alg.isAcyclic, true iff topsort meets no directed cycle *)
(* (a self-loop is a directed cycle)                                       *)

EdgePairs(g) == {<<g.edges[i].v, g.edges[i].w>> : i \in DOMAIN g.edges}

RECURSIVE ReachFrom(_, _)
ReachFrom(g, S) ==
    LET next == S \cup {p[2] : p \in {q \in EdgePairs(g) : q[1] \in S}}
    IN IF next = S THEN S ELSE ReachFrom(g, next)

\* nodes reachable from n by a path of at least one edge
ReachPlus(g, n) == ReachFrom(g, {p[2] : p \in {q \in EdgePairs(g) : q[1] = n}})

isDAGIgnoringSelfLoops(g) ==
    \A n \in SeqToSet(g.nodes) :
        n \notin ReachFrom(g, {p[2] : p \in {q \in EdgePairs(g) : q[1] = n /\ q[2] # n}})

isDAG(g) == \A n \in SeqToSet(g.nodes) : n \notin ReachPlus(g, n)

----------------------------------------------------------------------------
(* Paths.  A path is the sequence of its segments; an absolute path starts  *)
(* with the segment "/".  The process works in directory /w and the         *)
(* analysed project is /w/proj, so "proj" names the same directory.         *)

Cwd == <<"/", "w">>

ProjectAbs == <<"/", "w", "proj">>

ProjectRel == <<"proj">>

isAbsolute(p) == Len(p) > 0 /\ p[1] = "/"

\* path.join(dir, name)
join(dir, name) == SelectSeq(dir, LAMBDA x : x # ".") \o <<name>>

\* path.dirname
dirname(p) ==
    IF Len(p) = 1 THEN (IF isAbsolute(p) THEN p ELSE <<".">>)
    ELSE SubSeq(p, 1, Len(p) - 1)

\* path.resolve(p): a relative path is taken from the working directory
resolve(p) ==
    IF isAbsolute(p) THEN p ELSE Cwd \o SelectSeq(p, LAMBDA x : x # ".")

RECURSIVE goUp(_, _)
goUp(p, n) == IF n = 0 \/ Len(p) <= 1 THEN p ELSE goUp(SubSeq(p, 1, Len(p) - 1), n - 1)

\* path.resolve(fromDir, importPath) for a relative specifier
resolveFrom(fromDir, spec) == goUp(resolve(fromDir), spec.up) \o spec.segs

\* path.relative(from, to) for a path below `from`
relative(from, to) ==
    LET f == resolve(from)
        t == resolve(to)
    IN SubSeq(t, Len(f) + 1, Len(t))

KnownBases == {"a", "types", "c", "README", "index", "old", "proj", "w", "pkg", "fs"}

KnownExts == {".ts", ".tsx", ".js", ".jsx", ".mjs", ".cjs", ".md"}

\* path.extname(name)
extname(name) ==
    IF \E b \in KnownBases, e \in KnownExts : name = b \o e
    THEN CHOOSE e \in KnownExts : \E b \in KnownBases : name = b \o e
    ELSE ""

basenameNoExt(name) ==
    IF \E b \in KnownBases, e \in KnownExts : name = b \o e
    THEN CHOOSE b \in KnownBases : \E e \in KnownExts : name = b \o e
    ELSE name

\* p + ext
addExt(p, ext) == [p EXCEPT ![Len(p)] = @ \o ext]

endsWithJs(p) == extname(p[Len(p)]) = ".js"

\* resolvedPath.slice(0, -3)
withoutJs(p) == [p EXCEPT ![Len(p)] = basenameNoExt(@)]

----------------------------------------------------------------------------
(* The file system under /w *)

FsDirs == {<<"/">>, Cwd, ProjectAbs, ProjectAbs \o <<"old">>}

SourceFiles == <<ProjectAbs \o <<"a.ts">>,
                 ProjectAbs \o <<"old", "c.ts">>,
                 ProjectAbs \o <<"types.ts">>>>

FsFiles == SeqToSet(SourceFiles) \cup {ProjectAbs \o <<"README.md">>}

\* fs.existsSync
existsSync(p) == resolve(p) \in FsDirs \cup FsFiles

\* fs.readdirSync(dir, { withFileTypes: true })
readdirSync(dir) ==
    LET d == resolve(dir)
    IN IF d = ProjectAbs
       THEN <<[name |-> "README.md", isDirectory |-> FALSE],
              [name |-> "a.ts", isDirectory |-> FALSE],
              [name |-> "old", isDirectory |-> TRUE],
              [name |-> "types.ts", isDirectory |-> FALSE]>>
       ELSE IF d = ProjectAbs \o <<"old">>
       THEN <<[name |-> "c.ts", isDirectory |-> FALSE]>>
       ELSE IF d = Cwd
       THEN <<[name |-> "proj", isDirectory |-> TRUE]>>
       ELSE <<>>

----------------------------------------------------------------------------
(* scanDirectory (parsers/typescript-parser) and scanFiles *)

ScanMaxDepth == 20

DefaultExclude == <<"node_modules", "dist", "build", ".git", "coverage",
                    "__pycache__", "venv", ".venv">>

TsExtensions == <<".ts", ".tsx", ".js", ".jsx">>

\* fullPath.includes(`/${ex}/`)
includesDir(fullPath, ex) ==
    \E i \in DOMAIN fullPath :
        /\ fullPath[i] = ex
        /\ i < Len(fullPath)
        /\ i > 1

\* exclude.some(ex => entry.name === ex || fullPath.includes(`/${ex}/`))
isExcluded(name, fullPath, exclude) ==
    \E k \in DOMAIN exclude : name = exclude[k] \/ includesDir(fullPath, exclude[k])

RECURSIVE scan(_, _, _, _)
RECURSIVE scanEntries(_, _, _, _, _, _)

scanEntries(dir, depth, exclude, entries, i, files) ==
    IF i > Len(entries) THEN files
    ELSE LET entry == entries[i]
             fullPath == join(dir, entry.name)
             files1 ==
                 IF isExcluded(entry.name, fullPath, exclude) THEN files
                 ELSE IF entry.isDirectory THEN scan(fullPath, depth + 1, exclude, files)
                 ELSE IF includes(TsExtensions, extname(entry.name))
                      THEN Append(files, fullPath)
                      ELSE files
         IN scanEntries(dir, depth, exclude, entries, i + 1, files1)

scan(dir, depth, exclude, files) ==
    IF depth > ScanMaxDepth THEN files
    ELSE scanEntries(dir, depth, exclude, readdirSync(dir), 1, files)

scanDirectory(dirPath, exclude) == scan(dirPath, 0, exclude, <<>>)

\* [...new Set([...defaultExclude, ...exclude])]
scanFiles(dirPath, exclude) ==
    scanDirectory(dirPath,
        DefaultExclude \o SelectSeq(exclude, LAMBDA x : ~includes(DefaultExclude, x)))

----------------------------------------------------------------------------
(* Import specifiers and classifyDependency (parsers/typescript-parser) *)

Catalog ==
    <<[text |-> "./a", relative |-> TRUE, up |-> 0, segs |-> <<"a">>],
      [text |-> "./a.js", relative |-> TRUE, up |-> 0, segs |-> <<"a.js">>],
      [text |-> "./types", relative |-> TRUE, up |-> 0, segs |-> <<"types">>],
      [text |-> "./old/c", relative |-> TRUE, up |-> 0, segs |-> <<"old", "c">>],
      [text |-> "../a", relative |-> TRUE, up |-> 1, segs |-> <<"a">>],
      [text |-> "pkg", relative |-> FALSE, up |-> 0, segs |-> <<"pkg">>],
      [text |-> "fs", relative |-> FALSE, up |-> 0, segs |-> <<"fs">>]>>

NodeBuiltins == {"fs", "path", "os", "http", "util"}

isNodeBuiltin(spec) == spec.segs[1] \in NodeBuiltins

getPackageName(spec) == spec.segs[1]

ResolveExtensions == <<".ts", ".tsx", ".js", ".jsx", ".mjs", ".cjs", "">>

JsResolveExtensions == <<".js", ".jsx", ".mjs", ".cjs", ".ts", ".tsx", "">>

\* fs.existsSync(p) when `present` is the set of the paths that exist
existsIn(present, p) == resolve(p) \in present

RECURSIVE probeFrom(_, _, _, _)
\* the extension loop of classifyDependency, from the i-th extension on
probeFrom(extensions, present, resolvedPath, i) ==
    IF i > Len(extensions) THEN resolvedPath
    ELSE LET ext == extensions[i]
             withExt == addExt(resolvedPath, ext)
             indexPath == join(resolvedPath, "index" \o ext)
         IN IF existsIn(present, withExt) THEN withExt
            ELSE IF existsIn(present, indexPath) THEN indexPath
            ELSE probeFrom(extensions, present, resolvedPath, i + 1)

probeExtensions(resolvedPath, i) ==
    probeFrom(ResolveExtensions, FsDirs \cup FsFiles, resolvedPath, i)

\* classifyDependency of parsers/typescript-parser on a given file system
classifyDependencyIn(present, spec, fromFile) ==
    IF isNodeBuiltin(spec)
    THEN [from |-> fromFile, to |-> <<spec.text>>, type |-> "builtin",
          packageName |-> <<spec.text>>]
    ELSE IF spec.relative
    THEN LET fromDir == dirname(fromFile)
             resolvedPath == resolveFrom(fromDir, spec)
             internal(to) == [from |-> fromFile, to |-> to, type |-> "internal",
                              packageName |-> <<>>]
         IN IF endsWithJs(resolvedPath) /\ ~existsIn(present, resolvedPath)
            THEN IF existsIn(present, addExt(withoutJs(resolvedPath), ".ts"))
                 THEN internal(addExt(withoutJs(resolvedPath), ".ts"))
                 ELSE IF existsIn(present, addExt(withoutJs(resolvedPath), ".tsx"))
                 THEN internal(addExt(withoutJs(resolvedPath), ".tsx"))
                 ELSE internal(probeFrom(ResolveExtensions, present,
                                         withoutJs(resolvedPath), 1))
            ELSE internal(probeFrom(ResolveExtensions, present, resolvedPath, 1))
    ELSE [from |-> fromFile, to |-> <<spec.text>>, type |-> "external",
          packageName |-> <<getPackageName(spec)>>]

classifyDependency(spec, fromFile) ==
    classifyDependencyIn(FsDirs \cup FsFiles, spec, fromFile)

\* classifyDependency of parsers/javascript-parser on a given file system
jsClassifyDependencyIn(present, spec, fromFile) ==
    IF isNodeBuiltin(spec)
    THEN [from |-> fromFile, to |-> <<spec.text>>, type |-> "builtin",
          packageName |-> <<spec.text>>]
    ELSE IF spec.relative
    THEN [from |-> fromFile,
          to |-> probeFrom(JsResolveExtensions, present,
                           resolveFrom(dirname(fromFile), spec), 1),
          type |-> "internal", packageName |-> <<>>]
    ELSE [from |-> fromFile, to |-> <<spec.text>>, type |-> "external",
          packageName |-> <<getPackageName(spec)>>]

\* parseTypeScriptFile(filePath).imports: the deduplicated specifiers of the file
moduleImports(content, filePath) ==
    IF resolve(filePath) \in DOMAIN content THEN content[resolve(filePath)] ELSE <<>>

\* extractDependencies(filePath, basePath)
extractDependencies(content, filePath) ==
    LET imps == moduleImports(content, filePath)
    IN [i \in 1..Len(imps) |-> classifyDependency(Catalog[imps[i]], filePath)]

----------------------------------------------------------------------------
(* tools/dependency-graph *)

RelationshipExtensions == <<".ts", ".tsx", ".js", ".jsx", "">>

importRel(source, target) ==
    [source |-> source, target |-> target, type |-> "import", weight |-> 1]

\* index of the first extension with fileSet.has(resolvedTarget + ext), 0 if none
RECURSIVE firstExtInSet(_, _, _)
firstExtInSet(fileSet, resolvedTarget, i) ==
    IF i > Len(RelationshipExtensions) THEN 0
    ELSE IF addExt(resolvedTarget, RelationshipExtensions[i]) \in fileSet THEN i
    ELSE firstExtInSet(fileSet, resolvedTarget, i + 1)

\* the relationships pushed for one dependency
depGraphRelsOfDep(file, dep, fileSet, inclExternal) ==
    IF dep.type = "external"
    THEN (IF inclExternal THEN <<importRel(file, dep.packageName)>> ELSE <<>>)
    ELSE IF dep.type = "builtin" THEN <<>>
    ELSE LET resolvedTarget == resolve(dep.to)
         IN IF resolvedTarget \in fileSet
            THEN <<importRel(file, resolvedTarget)>>
            ELSE LET k == firstExtInSet(fileSet, resolvedTarget, 1)
                 IN IF k # 0
                    THEN <<importRel(file, addExt(resolvedTarget, RelationshipExtensions[k]))>>
                    ELSE IF inclExternal THEN <<importRel(file, dep.to)>>
                    ELSE <<>>

RECURSIVE flatten(_)
flatten(ss) == IF ss = <<>> THEN <<>> ELSE ss[1] \o flatten(Tail(ss))

depGraphExtractRelationships(content, files, inclExternal) ==
    LET fileSet == {resolve(files[i]) : i \in DOMAIN files}
    IN flatten([i \in 1..Len(files) |->
         LET deps == extractDependencies(content, files[i])
         IN flatten([j \in 1..Len(deps) |->
                depGraphRelsOfDep(files[i], deps[j], fileSet, inclExternal)])])

RECURSIVE ensureNodes(_, _, _)
ensureNodes(g, files, i) ==
    IF i > Len(files) THEN g ELSE ensureNodes(setNode(g, files[i]), files, i + 1)

\* getShortName(path)
getShortName(p) == p[Len(p)]

calculateGraphStats(g) ==
    LET connections(n) == Len(successors(g, n)) + Len(predecessors(g, n))
        maxOf(S) == IF S = {} THEN 0 ELSE CHOOSE x \in S : \A y \in S : y <= x
        maxDeps == maxOf({connections(g.nodes[i]) : i \in DOMAIN g.nodes})
    IN [totalNodes |-> Len(g.nodes),
        totalEdges |-> Len(g.edges),
        maxDependencies |-> maxDeps,
        mostConnected |-> SelectSeq(g.nodes, LAMBDA n : connections(n) = maxDeps),
        entryPoints |-> SelectSeq(g.nodes, LAMBDA n : Len(predecessors(g, n)) = 0),
        leafNodes |-> SelectSeq(g.nodes, LAMBDA n : Len(successors(g, n)) = 0)]

generateJsonGraph(g) ==
    [nodes |-> [i \in 1..Len(g.nodes) |->
                   [id |-> g.nodes[i], label |-> getShortName(g.nodes[i])]],
     edges |-> [i \in 1..Len(g.edges) |->
                   [source |-> g.edges[i].v, target |-> g.edges[i].w,
                    data |-> g.edges[i].label]]]

generateDependencyGraph(content, path, excl, inclExternal) ==
    LET files == scanFiles(path, excl)
    IN IF Len(files) = 0
       THEN [graph |-> [nodes |-> <<>>, edges |-> <<>>],
             stats |-> [totalNodes |-> 0, totalEdges |-> 0, maxDependencies |-> 0,
                        mostConnected |-> <<>>, entryPoints |-> <<>>, leafNodes |-> <<>>],
             files |-> 0, hasCycles |-> FALSE, cycleCount |-> 0]
       ELSE LET rels == depGraphExtractRelationships(content, files, inclExternal)
                g == ensureNodes(buildGraph(rels), files, 1)
                cs == findCycles(g)
            IN [graph |-> generateJsonGraph(g),
                stats |-> calculateGraphStats(g),
                files |-> Len(files),
                hasCycles |-> Len(cs) > 0,
                cycleCount |-> Len(cs)]

----------------------------------------------------------------------------
(* tools/module-mapper *)

\* the relationships pushed for one dependency
RECURSIVE mapperProbe(_, _, _, _)
mapperProbe(file, fileSet, resolvedTarget, i) ==
    IF i > Len(RelationshipExtensions) THEN <<>>
    ELSE LET withExt == addExt(resolvedTarget, RelationshipExtensions[i])
             indexPath == join(resolvedTarget, "index" \o RelationshipExtensions[i])
         IN IF withExt \in fileSet THEN <<importRel(file, withExt)>>
            ELSE IF indexPath \in fileSet THEN <<importRel(file, indexPath)>>
            ELSE mapperProbe(file, fileSet, resolvedTarget, i + 1)

mapperRelsOfDep(file, dep, fileSet) ==
    IF dep.type # "internal" THEN <<>>
    ELSE LET resolvedTarget == resolve(dep.to)
         IN IF resolvedTarget \in fileSet
            THEN <<importRel(file, resolvedTarget)>>
            ELSE mapperProbe(file, fileSet, resolvedTarget, 1)

mapperExtractRelationships(content, files) ==
    LET fileSet == {resolve(files[i]) : i \in DOMAIN files}
    IN flatten([i \in 1..Len(files) |->
         LET deps == extractDependencies(content, files[i])
         IN flatten([j \in 1..Len(deps) |-> mapperRelsOfDep(files[i], deps[j], fileSet)])])

DefaultDepth == 2

RECURSIVE joinSlash(_)
joinSlash(parts) ==
    IF parts = <<>> THEN ""
    ELSE IF Len(parts) = 1 THEN parts[1]
    ELSE parts[1] \o "/" \o joinSlash(Tail(parts))

\* parts.slice(0, depth).join('/') || 'root'
directoryGroupName(basePath, file, depth) ==
    LET parts == dirname(relative(basePath, file))
        name == joinSlash(SubSeq(parts, 1, Min(depth, Len(parts))))
    IN IF name = "" THEN "root" ELSE name

RECURSIVE groupByDirectoryFrom(_, _, _, _, _)
groupByDirectoryFrom(files, basePath, depth, i, groups) ==
    IF i > Len(files) THEN groups
    ELSE LET name == directoryGroupName(basePath, files[i], depth)
             k == IF \E j \in DOMAIN groups : groups[j].name = name
                  THEN CHOOSE j \in DOMAIN groups : groups[j].name = name
                  ELSE 0
             groups1 == IF k = 0
                        THEN Append(groups, [name |-> name, modules |-> <<files[i]>>])
                        ELSE [groups EXCEPT ![k].modules = Append(@, files[i])]
         IN groupByDirectoryFrom(files, basePath, depth, i + 1, groups1)

groupByDirectory(files, basePath, depth) ==
    groupByDirectoryFrom(files, basePath, depth, 1, <<>>)

\* a quotient num/den of two integers, den > 0
Ratio(num, den) == [num |-> num, den |-> den]

AbstractNames == {"interface", "abstract", "type", "types", "contract", "contracts"}

\* /\b(interface|abstract|types?|contracts?)\b/i.test(file)
isAbstract(file) ==
    IF \E i \in DOMAIN file : basenameNoExt(file[i]) \in AbstractNames THEN 1 ELSE 0

Abs(x) == IF x < 0 THEN -x ELSE x

distanceWithoutAbs(abstractness, instability) ==
    Ratio(abstractness * instability.den + instability.num - instability.den,
          instability.den)

\* Math.abs(isAbstract + instability - 1)
distanceFromMainSequence(abstractness, instability) ==
    Ratio(Abs(abstractness * instability.den + instability.num - instability.den),
          instability.den)

couplingMetricsOf(file, rels) ==
    LET incoming == Len(SelectSeq(rels, LAMBDA r : r.target = file))
        outgoing == Len(SelectSeq(rels, LAMBDA r : r.source = file))
        total == incoming + outgoing
        instability == IF total = 0 THEN Ratio(0, 1) ELSE Ratio(outgoing, total)
    IN [afferentCoupling |-> incoming,
        efferentCoupling |-> outgoing,
        instability |-> instability,
        abstractness |-> isAbstract(file),
        distanceFromMainSequence |-> distanceFromMainSequence(isAbstract(file), instability)]

calculateCouplingMetrics(files, rels) ==
    [f \in SeqToSet(files) |-> couplingMetricsOf(f, rels)]

calculateGroupCohesion(groupFiles, rels) ==
    IF Len(groupFiles) <= 1 THEN Ratio(1, 1)
    ELSE LET groupSet == SeqToSet(groupFiles)
             internalRelationships ==
                 Len(SelectSeq(rels, LAMBDA r : r.source \in groupSet /\ r.target \in groupSet))
             maxRelationships == Len(groupFiles) * (Len(groupFiles) - 1)
         IN IF maxRelationships = 0 THEN Ratio(1, 1)
            ELSE Ratio(internalRelationships, maxRelationships)

groupCouplingOutgoingOnly(groupFiles, allFiles, rels) ==
    LET groupSet == SeqToSet(groupFiles)
        otherFiles == SelectSeq(allFiles, LAMBDA f : f \notin groupSet)
    IN IF Len(otherFiles) = 0 THEN Ratio(0, 1)
       ELSE Ratio(Len(SelectSeq(rels, LAMBDA r :
                        r.source \in groupSet /\ r.target \notin groupSet)),
                  Len(groupFiles) * Len(otherFiles) + 1)

calculateGroupCoupling(groupFiles, allFiles, rels) ==
    LET groupSet == SeqToSet(groupFiles)
        otherFiles == SelectSeq(allFiles, LAMBDA f : f \notin groupSet)
        externalRelationships ==
            Len(SelectSeq(rels, LAMBDA r :
                  \/ (r.source \in groupSet /\ r.target \notin groupSet)
                  \/ (r.source \notin groupSet /\ r.target \in groupSet)))
    IN IF Len(otherFiles) = 0 THEN Ratio(0, 1)
       ELSE Ratio(externalRelationships, Len(groupFiles) * Len(otherFiles) + 1)

\* groups.reduce((sum, g) => sum + g.cohesion * g.modules.length, 0) / files.length
RECURSIVE totalCohesion(_)
totalCohesion(groups) ==
    IF groups = <<>> THEN Ratio(0, 1)
    ELSE LET rest == totalCohesion(Tail(groups))
             c == groups[1].cohesion
             n == Len(groups[1].modules)
         IN Ratio(c.num * n * rest.den + rest.num * c.den, c.den * rest.den)

mapModuleRelationships(content, path, excl) ==
    LET files == scanFiles(path, excl)
    IN IF Len(files) = 0
       THEN [modules |-> <<>>, relationships |-> <<>>, couplingMetrics |-> <<>>,
             cohesionScore |-> Ratio(0, 1), groups |-> <<>>]
       ELSE LET rels == mapperExtractRelationships(content, files)
                fileGroups == groupByDirectory(files, path, DefaultDepth)
                groups == [i \in 1..Len(fileGroups) |->
                    [name |-> fileGroups[i].name,
                     modules |-> fileGroups[i].modules,
                     cohesion |-> calculateGroupCohesion(fileGroups[i].modules, rels),
                     coupling |-> calculateGroupCoupling(fileGroups[i].modules, files, rels)]]
                total == totalCohesion(groups)
            IN [modules |-> files,
                relationships |-> rels,
                couplingMetrics |-> calculateCouplingMetrics(files, rels),
                cohesionScore |-> Ratio(total.num, total.den * Len(files)),
                groups |-> groups]

----------------------------------------------------------------------------
(* Specification of the graph utilities: the relationship list is the input *)

RelSet == [source : Nodes, target : Nodes, type : {"import"}, weight : {1}]

NoContent == [f \in SeqToSet(SourceFiles) |-> <<>>]

NoDepOut == [graph |-> [nodes |-> <<>>, edges |-> <<>>],
             stats |-> [totalNodes |-> 0, totalEdges |-> 0, maxDependencies |-> 0,
                        mostConnected |-> <<>>, entryPoints |-> <<>>, leafNodes |-> <<>>],
             files |-> 0, hasCycles |-> FALSE, cycleCount |-> 0]

NoMapOut == [modules |-> <<>>, relationships |-> <<>>, couplingMetrics |-> <<>>,
             cohesionScore |-> Ratio(0, 1), groups |-> <<>>]

CallVars == <<callArgs, callResult>>

NoCall == callArgs = <<>> /\ callResult = <<>>

InitGraph ==
    /\ done = {}
    /\ relationships \in SeqsUpTo(RelSet, MaxRels)
    /\ graph = EmptyGraph
    /\ cycles = <<>>
    /\ dag = FALSE
    /\ inputPath = ProjectAbs
    /\ excludeOpt = <<>>
    /\ includeExternal = FALSE
    /\ fileImports = NoContent
    /\ depOut = NoDepOut
    /\ mapOut = NoMapOut
    /\ NoCall

RepoVars == <<inputPath, excludeOpt, includeExternal, fileImports, depOut, mapOut>>

BuildGraph ==
    /\ done = {}
    /\ graph' = buildGraph(relationships)
    /\ done' = {"buildGraph"}
    /\ UNCHANGED <<relationships, cycles, dag, RepoVars, CallVars>>

FindCycles ==
    /\ "buildGraph" \in done
    /\ "findCycles" \notin done
    /\ cycles' = findCycles(graph)
    /\ done' = done \cup {"findCycles"}
    /\ UNCHANGED <<relationships, graph, dag, RepoVars, CallVars>>

IsDAG ==
    /\ "buildGraph" \in done
    /\ "isDAG" \notin done
    /\ dag' = isDAG(graph)
    /\ done' = done \cup {"isDAG"}
    /\ UNCHANGED <<relationships, graph, cycles, RepoVars, CallVars>>

NextGraph == BuildGraph \/ FindCycles \/ IsDAG

SpecGraph == InitGraph /\ [][NextGraph]_vars

----------------------------------------------------------------------------
(* Specification of the tools: the inputs are the tool options and the     *)
(* import statements written in the source files of the project            *)

\* every file may hold every relative specifier; a bare specifier is classified
\* the same way wherever it is written, so only the first file holds those
ImportPairs ==
    {p \in SeqToSet(SourceFiles) \X (1..Len(Catalog)) :
        Catalog[p[2]].relative \/ p[1] = SourceFiles[1]}

ImportSets == {SeqToSet(s) : s \in SeqsUpTo(ImportPairs, MaxImports)}

\* the imports of each file, in the order of the catalog
contentOf(P) ==
    [f \in SeqToSet(SourceFiles) |->
        SelectSeq([i \in 1..Len(Catalog) |-> i], LAMBDA i : <<f, i>> \in P)]

InitRepo ==
    /\ done = {}
    /\ relationships = <<>>
    /\ graph = EmptyGraph
    /\ cycles = <<>>
    /\ dag = FALSE
    /\ inputPath \in {ProjectAbs, ProjectRel}
    /\ excludeOpt \in {<<>>, <<"old">>}
    /\ includeExternal \in BOOLEAN
    /\ fileImports \in {contentOf(P) : P \in ImportSets}
    /\ depOut = NoDepOut
    /\ mapOut = NoMapOut
    /\ NoCall

GraphVars == <<relationships, graph, cycles, dag>>

GenerateDependencyGraph ==
    /\ "generateDependencyGraph" \notin done
    /\ depOut' = generateDependencyGraph(fileImports, inputPath, excludeOpt, includeExternal)
    /\ done' = done \cup {"generateDependencyGraph"}
    /\ UNCHANGED <<GraphVars, inputPath, excludeOpt, includeExternal, fileImports, mapOut, CallVars>>

MapModuleRelationships ==
    /\ "mapModuleRelationships" \notin done
    /\ mapOut' = mapModuleRelationships(fileImports, inputPath, excludeOpt)
    /\ done' = done \cup {"mapModuleRelationships"}
    /\ UNCHANGED <<GraphVars, inputPath, excludeOpt, includeExternal, fileImports, depOut, CallVars>>

NextRepo == GenerateDependencyGraph \/ MapModuleRelationships

SpecRepo == InitRepo /\ [][NextRepo]_vars

----------------------------------------------------------------------------
(* Reference notions used by the properties *)

FindCyclesDone == "findCycles" \in done

GraphNodes == SeqToSet(graph.nodes)

MutuallyReachable(g, a, b) == a = b \/ (b \in ReachPlus(g, a) /\ a \in ReachPlus(g, b))

SCCOf(g, n) == {m \in SeqToSet(g.nodes) : MutuallyReachable(g, n, m)}

HasSelfLoop(g) == \E n \in SeqToSet(g.nodes) : hasEdge(g, n, n)

NoDuplicates(s) == \A i, j \in DOMAIN s : i # j => s[i] # s[j]

CyclesContaining(n) == {i \in DOMAIN cycles : includes(cycles[i].nodes, n)}

----------------------------------------------------------------------------
(* C1 *)

\* C1 (as stated): for every directed graph, self-loops included, isDAG is
\* true exactly when findCycles returns the empty list.
C1_IsDagIffNoCycles ==
    ({"findCycles", "isDAG"} \subseteq done) => (dag <=> (cycles = <<>>))

\* C1 (amended): isDAG is true exactly when findCycles returns the empty list
\* and the graph has no self-loop edge; a graph with a self-loop is never a DAG.
C1_IsDagIffNoCyclesNoSelfLoop ==
    ({"findCycles", "isDAG"} \subseteq done) =>
        (dag <=> (cycles = <<>> /\ ~HasSelfLoop(graph)))

C1_Witness ==
    /\ {"findCycles", "isDAG"} \subseteq done
    /\ HasSelfLoop(graph)
    /\ cycles = <<>>
    /\ dag = FALSE

----------------------------------------------------------------------------
(* C2 *)

----------------------------------------------------------------------------
(* C3 *)

TriangleEdges == {<<"A", "B">>, <<"B", "C">>, <<"C", "A">>}

\* C3: for the graph whose only edges are A->B, B->C, C->A, findCycles returns
\* exactly one cycle, of length 3, made of A, B and C, with severity medium.
C3_TriangleIsOneMediumCycle ==
    (FindCyclesDone /\ EdgePairs(graph) = TriangleEdges) =>
        /\ Len(cycles) = 1
        /\ cycles[1].length = 3
        /\ SeqToSet(cycles[1].nodes) = {"A", "B", "C"}
        /\ cycles[1].severity = "medium"

C3_Witness ==
    /\ FindCyclesDone
    /\ EdgePairs(graph) = TriangleEdges
    /\ Len(cycles) = 1

----------------------------------------------------------------------------
(* C4 *)

----------------------------------------------------------------------------
(* C5 *)

\* C5: the severity of every reported cycle is the threshold function of its
\* length and of the number of DISTINCT nodes outside the cycle that have an
\* edge to a member of the cycle.
C5_SeverityFromDistinctAffected ==
    FindCyclesDone =>
        \A i \in DOMAIN cycles :
            cycles[i].severity =
                severityOf(cycles[i].length, affectedNodesDistinct(cycles[i].nodes, graph))

----------------------------------------------------------------------------
(* Reference notions for the tools *)

DepGraphDone == "generateDependencyGraph" \in done

MapperDone == "mapModuleRelationships" \in done

ScannedFiles == scanFiles(inputPath, excludeOpt)

DepNodeIds == {depOut.graph.nodes[i].id : i \in DOMAIN depOut.graph.nodes}

\* the path names a file below a directory named by a user exclude pattern
UnderExcluded(p) ==
    \E k \in DOMAIN excludeOpt :
        \E i \in 1..(Len(resolve(p)) - 1) : resolve(p)[i] = excludeOpt[k]

RatioInUnitInterval(r) == r.den > 0 /\ 0 <= r.num /\ r.num <= r.den

\* relationships with exactly one endpoint equal to the file
CrossingOf(f) ==
    Len(SelectSeq(mapOut.relationships,
                  LAMBDA r : (r.source = f /\ r.target # f) \/ (r.source # f /\ r.target = f)))

----------------------------------------------------------------------------
(* C6 *)

\* C6: with includeExternal=false the node set of the dependency graph is
\* exactly the scanned file set, for an absolute and for a relative input
\* path; stats.totalNodes and the JSON nodes array both have one entry per
\* scanned file.
C6_NodeSetIsScannedFiles ==
    (DepGraphDone /\ ~includeExternal) =>
        /\ DepNodeIds = SeqToSet(ScannedFiles)
        /\ depOut.stats.totalNodes = Len(ScannedFiles)
        /\ Len(depOut.graph.nodes) = Len(ScannedFiles)

----------------------------------------------------------------------------
(* C7 *)

\* C7: for every setting of the options, no file under a directory named by
\* an exclude pattern appears in a result: not as a graph node or edge
\* endpoint, not as a relationship endpoint, metrics entry or group member.
C7_ExcludedFilesAppearNowhere ==
    /\ DepGraphDone =>
          /\ \A n \in DepNodeIds : ~UnderExcluded(n)
          /\ \A i \in DOMAIN depOut.graph.edges :
                /\ ~UnderExcluded(depOut.graph.edges[i].source)
                /\ ~UnderExcluded(depOut.graph.edges[i].target)
    /\ MapperDone =>
          /\ \A i \in DOMAIN mapOut.relationships :
                /\ ~UnderExcluded(mapOut.relationships[i].source)
                /\ ~UnderExcluded(mapOut.relationships[i].target)
          /\ \A f \in DOMAIN mapOut.couplingMetrics : ~UnderExcluded(f)
          /\ \A i \in DOMAIN mapOut.groups :
                \A j \in DOMAIN mapOut.groups[i].modules :
                    ~UnderExcluded(mapOut.groups[i].modules[j])

----------------------------------------------------------------------------
(* C8 *)

----------------------------------------------------------------------------
(* C9 *)

\* C9: for every module group and every relationship list the extractor can
\* produce, 0 <= cohesion <= 1 and 0 <= coupling <= 1.
C9_GroupScoresInUnitInterval ==
    MapperDone =>
        \A i \in DOMAIN mapOut.groups :
            /\ RatioInUnitInterval(mapOut.groups[i].cohesion)
            /\ RatioInUnitInterval(mapOut.groups[i].coupling)

----------------------------------------------------------------------------
(* C10 *)

\* C10: for every scanned file, 0 <= instability <= 1 and
\* 0 <= distanceFromMainSequence <= 1, and instability is 0 when the file has
\* neither incoming nor outgoing relationships.
C10_InstabilityAndDistanceInUnitInterval ==
    MapperDone =>
        /\ DOMAIN mapOut.couplingMetrics = SeqToSet(mapOut.modules)
        /\ \A f \in DOMAIN mapOut.couplingMetrics :
              LET cm == mapOut.couplingMetrics[f]
              IN /\ RatioInUnitInterval(cm.instability)
                 /\ RatioInUnitInterval(cm.distanceFromMainSequence)
                 /\ (cm.afferentCoupling = 0 /\ cm.efferentCoupling = 0)
                       => cm.instability.num = 0

C10_Witness ==
    /\ MapperDone
    /\ \E f \in DOMAIN mapOut.couplingMetrics :
          /\ mapOut.couplingMetrics[f].afferentCoupling > 0
          /\ mapOut.couplingMetrics[f].efferentCoupling > 0
          /\ mapOut.couplingMetrics[f].abstractness = 1
    /\ \E f \in DOMAIN mapOut.couplingMetrics :
          /\ mapOut.couplingMetrics[f].afferentCoupling = 0
          /\ mapOut.couplingMetrics[f].efferentCoupling = 0
    /\ \E f \in DOMAIN mapOut.couplingMetrics :
          /\ mapOut.couplingMetrics[f].abstractness = 0
          /\ mapOut.couplingMetrics[f].instability.num < mapOut.couplingMetrics[f].instability.den

----------------------------------------------------------------------------
(* parsers/typescript-parser calculateComplexity.  A function node of the   *)
(* syntax tree is [name, branches, nested]: the name visitFunction finds    *)
(* for it ("" when it finds none), the number of counted nodes (if, ?:,     *)
(* loops, case, catch, &&, ||, ??) written in its own body, and the         *)
(* function nodes written inside it.                                        *)

RECURSIVE countedNodes(_)
countedNodes(node) ==
    node.branches + SumSeq([i \in 1..Len(node.nested) |-> countedNodes(node.nested[i])])

countComplexity(node) == countedNodes(node) + 1

RECURSIVE visitFunction(_)
visitFunction(node) ==
    (IF node.name # ""
     THEN <<[name |-> node.name, complexity |-> countComplexity(node)]>>
     ELSE <<>>)
    \o flatten([i \in 1..Len(node.nested) |-> visitFunction(node.nested[i])])

\* the source file node is the root; its children are the top-level functions
calculateComplexity(file) ==
    IF ~file.readable THEN <<>>
    ELSE flatten([i \in 1..Len(file.functions) |-> visitFunction(file.functions[i])])

----------------------------------------------------------------------------
(* parsers/python-parser.  A Python file is its list of lines, each         *)
(* [kind, indent, andOr]: kind "def", "branch" (if/elif/while/for),         *)
(* "except", "stmt", "#" or "" (blank), the width of its indentation and    *)
(* the number of " and " / " or " it holds; `trailer` further plain         *)
(* statements at indentation 0 end the file.                                *)

pyLinesOf(file) ==
    file.lines \o (IF file.trailer > 0
                   THEN <<[kind |-> "stmt", indent |-> 0, andOr |-> 0]>>
                   ELSE <<>>)

pyDecisionPoints(line) ==
    (IF line.kind = "branch" THEN 1 ELSE 0)
    + (IF line.kind = "except" THEN 1 ELSE 0)
    + line.andOr

calculatePythonComplexity(file) ==
    IF ~file.readable THEN [complexity |-> 0, functions |-> 0]
    ELSE LET counted == SelectSeq(file.lines, LAMBDA l : l.kind \notin {"#", ""})
         IN [complexity |-> 1 + SumSeq([i \in 1..Len(counted) |-> pyDecisionPoints(counted[i])]),
             functions |-> Len(SelectSeq(counted, LAMBDA l : l.kind = "def"))]

\* the loop of parsePythonFunctions from line i on; cur is currentFunction
\* (<<>> for null, else a one-element sequence), acc the functions pushed
RECURSIVE parsePyLoop(_, _, _, _)
parsePyLoop(lines, i, cur, acc) ==
    IF i > Len(lines)
    THEN acc \o [k \in 1..Len(cur) |-> [name |-> cur[k].name, complexity |-> cur[k].complexity]]
    ELSE LET line == lines[i]
             pushed == [k \in 1..Len(cur) |->
                           [name |-> cur[k].name, complexity |-> cur[k].complexity]]
         IN IF line.kind = "def"
            THEN parsePyLoop(lines, i + 1,
                             <<[name |-> "f", indent |-> line.indent, complexity |-> 1]>>,
                             acc \o pushed)
            ELSE LET exited == /\ cur # <<>>
                               /\ line.kind \notin {"", "#"}
                               /\ line.indent <= cur[1].indent
                     cur2 == IF exited THEN <<>> ELSE cur
                     acc2 == IF exited THEN acc \o pushed ELSE acc
                     cur3 == [k \in 1..Len(cur2) |->
                                [cur2[k] EXCEPT !.complexity = @ + pyDecisionPoints(line)]]
                 IN parsePyLoop(lines, i + 1, cur3, acc2)

parsePythonFunctions(file) ==
    IF ~file.readable THEN <<>>
    ELSE parsePyLoop(pyLinesOf(file), 1, <<>>, <<>>)

----------------------------------------------------------------------------
(* tools/complexity-analyzer.  Numbers of the maintainability formula are   *)
(* kept in thousandths.  The text of a TypeScript file is a list of runs    *)
(* [kind, n] of n lines of one kind: "code", "" (blank), "//", "/*", "*".    *)

RECURSIVE floorLog2(_)
floorLog2(x) == IF x < 2 THEN 0 ELSE 1 + floorLog2(x \div 2)

\* Math.log(x) for an integer x >= 1: x = 2^k * m with m in [1,2),
\* ln x = k ln 2 + 2 artanh((m-1)/(m+1)), the series cut after four terms
MathLog(x) ==
    LET k  == floorLog2(x)
        p  == 2 ^ k
        t  == (10000 * (x - p)) \div (x + p)
        t2 == (t * t) \div 10000
        t3 == (t * t2) \div 10000
        t5 == (t3 * t2) \div 10000
        t7 == (t5 * t2) \div 10000
    IN (k * 6931 + 2 * (t + t3 \div 3 + t5 \div 5 + t7 \div 7)) \div 10

\* 171 - 5.2 ln(avg + 1) - 0.23 avg - 16.2 ln(linesOfCode + 1), avg = total / count
rawMaintainability(total, count, linesOfCode) ==
    171000 - (52 * (MathLog(total + count) - MathLog(count))) \div 10
           - (230 * total) \div count
           - (162 * MathLog(linesOfCode + 1)) \div 10

Max(a, b) == IF a >= b THEN a ELSE b

clampNoFloor(x) == Min(100000, x)

\* Math.max(0, Math.min(100, x))
clamp(x) == Max(0, Min(100000, x))

\* Math.round of a number given in thousandths
MathRound(x) == (x + 500) \div 1000

maintainabilityIndex(total, count, linesOfCode) ==
    MathRound(clamp(rawMaintainability(total, count, linesOfCode)))

Null == [null |-> TRUE]

countLines(text, skipped) ==
    LET kept == SelectSeq(text, LAMBDA run : run.kind \notin skipped)
    IN SumSeq([i \in 1..Len(kept) |-> kept[i].n])

\* the try block of calculateTsFileComplexity
tsFileMetrics(file) ==
         LET linesOfCode == countLines(file.text, {"", "//", "/*", "*"})
             functions == calculateComplexity(file)
             totalComplexity == SumSeq([i \in 1..Len(functions) |-> functions[i].complexity])
         IN [null |-> FALSE,
             path |-> file.path,
             cyclomaticComplexity |-> IF totalComplexity = 0 THEN 1 ELSE totalComplexity,
             functionCount |-> Len(functions),
             linesOfCode |-> linesOfCode,
             functionsComplexity |-> functions,
             maintainabilityIndex |->
                 IF Len(functions) > 0
                 THEN maintainabilityIndex(totalComplexity, Len(functions), linesOfCode)
                 ELSE maintainabilityIndex(1, 1, linesOfCode)]

tsFileMetricsEvenOnError(file) == tsFileMetrics(file)

calculateTsFileComplexity(file) ==
    IF ~file.readable THEN Null ELSE tsFileMetrics(file)

calculatePyFileComplexity(file) ==
    IF ~file.readable THEN Null
    ELSE LET kept == SelectSeq(file.lines, LAMBDA l : l.kind \notin {"", "#"})
             linesOfCode == Len(kept) + file.trailer
             py == calculatePythonComplexity(file)
             pyFunctions == parsePythonFunctions(file)
         IN [null |-> FALSE,
             path |-> file.path,
             cyclomaticComplexity |-> py.complexity,
             functionCount |-> py.functions,
             linesOfCode |-> linesOfCode,
             functionsComplexity |-> pyFunctions,
             maintainabilityIndex |->
                 IF py.functions > 0
                 THEN maintainabilityIndex(py.complexity, py.functions, linesOfCode)
                 ELSE maintainabilityIndex(1, 1, linesOfCode)]

\* the body of the loop of analyzeComplexity for one file
fileComplexityOf(file) ==
    IF file.language = "python"
    THEN calculatePyFileComplexity(file)
    ELSE calculateTsFileComplexity(file)

----------------------------------------------------------------------------
(* Specification of the complexity analyzer: the input is one source file   *)

InnerFunctionNodes == [name : {"", "g"}, branches : {0, 2}, nested : {<<>>}]

FunctionNodes ==
    [name : {"", "f"}, branches : {0, 1, 499},
     nested : {<<>>} \cup {<<n>> : n \in InnerFunctionNodes}]

TsTexts ==
    { <<>>,
      <<[kind |-> "code", n |-> 1]>>,
      <<[kind |-> "//", n |-> 5], [kind |-> "code", n |-> 100], [kind |-> "", n |-> 3]>>,
      <<[kind |-> "/*", n |-> 1], [kind |-> "*", n |-> 2], [kind |-> "code", n |-> 10000]>> }

PyLines ==
    [kind : {"def"}, indent : {0, 4}, andOr : {0}]
    \cup [kind : {"branch", "except"}, indent : {4}, andOr : {0}]
    \cup [kind : {"stmt"}, indent : {4}, andOr : {0, 1, 500}]
    \cup [kind : {"stmt"}, indent : {0}, andOr : {0}]
    \cup [kind : {"#"}, indent : {4}, andOr : {0, 1}]
    \cup [kind : {""}, indent : {0}, andOr : {0}]

TsFiles ==
    [path : {<<"f.ts">>}, language : {"typescript"}, readable : {TRUE}, text : TsTexts,
     functions : SeqsUpTo(FunctionNodes, MaxFunctions), lines : {<<>>}, trailer : {0}]

PyFiles ==
    [path : {<<"f.py">>}, language : {"python"}, readable : {TRUE}, text : {<<>>},
     functions : {<<>>},
     lines : SeqsUpTo(PyLines, MaxLines), trailer : {0, 10000}]

UnreadableFiles ==
    [path : {<<"f">>}, language : {"typescript", "python"}, readable : {FALSE}, text : {<<>>},
     functions : {<<>>}, lines : {<<>>}, trailer : {0}]

InitComplexity ==
    /\ done = {}
    /\ relationships = <<>>
    /\ graph = EmptyGraph
    /\ cycles = <<>>
    /\ dag = FALSE
    /\ inputPath = ProjectAbs
    /\ excludeOpt = <<>>
    /\ includeExternal = FALSE
    /\ fileImports = NoContent
    /\ depOut = NoDepOut
    /\ mapOut = NoMapOut
    /\ callArgs \in TsFiles \cup PyFiles \cup UnreadableFiles
    /\ callResult = <<>>

FileComplexity ==
    /\ done = {}
    /\ callResult' = fileComplexityOf(callArgs)
    /\ done' = {"fileComplexity"}
    /\ UNCHANGED <<GraphVars, RepoVars, callArgs>>

NextComplexity == FileComplexity

SpecComplexity == InitComplexity /\ [][NextComplexity]_vars

----------------------------------------------------------------------------
(* C11 *)

FileAnalysed == "fileComplexity" \in done /\ ~callResult.null

\* C11: the maintainabilityIndex reported for an analysed file lies within
\* [0,100], whatever the average complexity and the lines of code of the file.
C11_MaintainabilityWithinBounds ==
    FileAnalysed =>
        /\ callResult.maintainabilityIndex >= 0
        /\ callResult.maintainabilityIndex <= 100

\* a file of 10,000 lines of code and complexity >= 500 whose raw score is
\* negative and is reported as 0
C11_Witness ==
    /\ FileAnalysed
    /\ callResult.linesOfCode >= 10000
    /\ callResult.cyclomaticComplexity >= 500
    /\ rawMaintainability(callResult.cyclomaticComplexity,
                          Max(1, callResult.functionCount), callResult.linesOfCode) < 0
    /\ callResult.maintainabilityIndex = 0

----------------------------------------------------------------------------
(* C12 *)

\* the function nodes that get an entry, in the order of the traversal
RECURSIVE NamedFunctions(_)
NamedFunctions(nodes) ==
    IF nodes = <<>> THEN <<>>
    ELSE (IF Head(nodes).name # "" THEN <<Head(nodes)>> ELSE <<>>)
         \o NamedFunctions(Head(nodes).nested) \o NamedFunctions(Tail(nodes))

\* no counted construct anywhere in the text of the function
RECURSIVE BranchFree(_)
BranchFree(node) ==
    /\ node.branches = 0
    /\ \A i \in DOMAIN node.nested : BranchFree(node.nested[i])

\* the lines of the Python function defined at line i: up to the next def or
\* the next statement that is not indented deeper than the def
PyBody(lines, i) ==
    LET ends == {j \in (i + 1)..Len(lines) :
                    \/ lines[j].kind = "def"
                    \/ lines[j].kind \notin {"", "#"} /\ lines[j].indent <= lines[i].indent}
    IN {j \in (i + 1)..Len(lines) : \A e \in ends : j < e}

PyDefs(lines) == SelectSeq([i \in 1..Len(lines) |-> i], LAMBDA i : lines[i].kind = "def")

\* comments hold no construct: only statements count
PyBranchFree(lines, i) ==
    \A j \in PyBody(lines, i) :
        /\ lines[j].kind \notin {"branch", "except"}
        /\ lines[j].kind = "stmt" => lines[j].andOr = 0

\* C12: every FunctionComplexity entry has complexity >= 1, and the entry of a
\* function that holds none of the counted branching constructs has
\* complexity exactly 1.
C12_BaseComplexityOne ==
    FileAnalysed =>
        LET entries == callResult.functionsComplexity
        IN /\ \A i \in DOMAIN entries : entries[i].complexity >= 1
           /\ callArgs.language = "typescript" =>
                LET named == NamedFunctions(callArgs.functions)
                IN /\ Len(entries) = Len(named)
                   /\ \A i \in DOMAIN named :
                        BranchFree(named[i]) => entries[i].complexity = 1
           /\ callArgs.language = "python" =>
                LET defs == PyDefs(callArgs.lines)
                IN /\ Len(entries) = Len(defs)
                   /\ \A i \in DOMAIN defs :
                        PyBranchFree(callArgs.lines, defs[i]) => entries[i].complexity = 1

----------------------------------------------------------------------------
(* Diagram generators of utils/graph-utils.  A diagram is the list of its   *)
(* lines; a line is kept as the statement it is: "node" (an id followed by  *)
(* a bracketed label), "edge" (two ids and an arrow) or a keyword line.     *)
(* The text of the labels is left out.                                      *)

\* maxNodes, as passed by tools/dependency-graph
DiagramMaxNodes == 100

slice(s, n) == SubSeq(s, 1, Min(n, Len(s)))

indexOf(s, x) == CHOOSE i \in DOMAIN s : s[i] = x

\* the id given to the node at position i of limitedNodes: n0, n1, ...
nodeId(i) == "n" \o ToString(i - 1)

cycleNodesOf(cs) == UNION {SeqToSet(cs[i].nodes) : i \in DOMAIN cs}

cycleEdgesOf(cs) ==
    UNION {{<<cs[i].nodes[k], cs[i].nodes[(k % Len(cs[i].nodes)) + 1]>> :
               k \in DOMAIN cs[i].nodes} : i \in DOMAIN cs}

generateMermaidDiagram(g, showWeights, maxNodes, cs) ==
    IF Len(g.nodes) = 0
    THEN <<[kind |-> "graph", id |-> "TB", to |-> "", mark |-> ""],
           [kind |-> "node", id |-> "empty", to |-> "", mark |-> ""]>>
    ELSE LET limitedNodes == slice(g.nodes, maxNodes)
             shown == SelectSeq(g.edges, LAMBDA e : includes(limitedNodes, e.v)
                                                   /\ includes(limitedNodes, e.w))
             arrow(e) == IF showWeights /\ e.label.weight # 0 THEN "-->|weight|"
                         ELSE IF <<e.v, e.w>> \in cycleEdgesOf(cs) THEN "-.->"
                         ELSE "-->"
         IN <<[kind |-> "graph", id |-> "TB", to |-> "", mark |-> ""]>>
            \o [i \in 1..Len(limitedNodes) |->
                  [kind |-> "node", id |-> nodeId(i), to |-> "",
                   mark |-> IF limitedNodes[i] \in cycleNodesOf(cs) THEN ":::cycle" ELSE ""]]
            \o [i \in 1..Len(shown) |->
                  [kind |-> "edge", id |-> nodeId(indexOf(limitedNodes, shown[i].v)),
                   to |-> nodeId(indexOf(limitedNodes, shown[i].w)), mark |-> arrow(shown[i])]]
            \o (IF cycleNodesOf(cs) # {}
                THEN <<[kind |-> "classDef", id |-> "cycle", to |-> "", mark |-> ""]>>
                ELSE <<>>)
            \o (IF Len(g.nodes) > maxNodes
                THEN <<[kind |-> "node", id |-> "note", to |-> "", mark |-> ""]>>
                ELSE <<>>)

generateDotDiagram(g, maxNodes, cs) ==
    IF Len(g.nodes) = 0
    THEN <<[kind |-> "digraph", id |-> "G", to |-> "", mark |-> ""],
           [kind |-> "node", id |-> "empty", to |-> "", mark |-> ""],
           [kind |-> "}", id |-> "", to |-> "", mark |-> ""]>>
    ELSE LET limitedNodes == slice(g.nodes, maxNodes)
             shown == SelectSeq(g.edges, LAMBDA e : includes(limitedNodes, e.v)
                                                   /\ includes(limitedNodes, e.w))
         IN <<[kind |-> "digraph", id |-> "G", to |-> "", mark |-> ""],
              [kind |-> "rankdir", id |-> "TB", to |-> "", mark |-> ""],
              [kind |-> "defaults", id |-> "node", to |-> "", mark |-> "shape=box"]>>
            \o [i \in 1..Len(limitedNodes) |->
                  [kind |-> "node", id |-> nodeId(i), to |-> "",
                   mark |-> IF limitedNodes[i] \in cycleNodesOf(cs) THEN "color=red" ELSE ""]]
            \o [i \in 1..Len(shown) |->
                  [kind |-> "edge", id |-> nodeId(indexOf(limitedNodes, shown[i].v)),
                   to |-> nodeId(indexOf(limitedNodes, shown[i].w)), mark |-> "->"]]
            \o <<[kind |-> "}", id |-> "", to |-> "", mark |-> ""]>>

----------------------------------------------------------------------------
(* Specification of the three serializations of one graph *)

fileNode(n) == <<"src", n>>

SerRelSet ==
    [source : {fileNode(n) : n \in Nodes}, target : {fileNode(n) : n \in Nodes},
     type : {"import"}, weight : {1}]

\* m1 -> m2 -> ... -> mk
LargeChain(k) ==
    [i \in 1..(k - 1) |->
        [source |-> fileNode("m" \o ToString(i)), target |-> fileNode("m" \o ToString(i + 1)),
         type |-> "import", weight |-> 1]]

\* buildGraph(LargeChain(k)) in closed form: nodes and edges in insertion order
chainGraph(k) ==
    [nodes |-> [i \in 1..(IF k > 1 THEN k ELSE 0) |-> fileNode("m" \o ToString(i))],
     edges |-> [i \in 1..(k - 1) |->
                  [v |-> fileNode("m" \o ToString(i)), w |-> fileNode("m" \o ToString(i + 1)),
                   label |-> [type |-> "import", weight |-> 1]]]]

NoDiagrams == [mermaid |-> <<>>, dot |-> <<>>, json |-> [nodes |-> <<>>, edges |-> <<>>]]

InitSerialize ==
    /\ done = {}
    /\ \/ /\ relationships \in SeqsUpTo(SerRelSet, 2)
          /\ graph = buildGraph(relationships)
          /\ cycles = findCycles(graph)
       \/ \E k \in {DiagramMaxNodes, LargeGraphNodes} :
             /\ relationships = LargeChain(k)
             /\ graph = chainGraph(k)
             /\ cycles = <<>>
    /\ dag = FALSE
    /\ inputPath = ProjectAbs
    /\ excludeOpt = <<>>
    /\ includeExternal = FALSE
    /\ fileImports = NoContent
    /\ depOut = NoDepOut
    /\ mapOut = NoMapOut
    /\ callArgs \in [showWeights : BOOLEAN, maxNodes : {DiagramMaxNodes}]
    /\ callResult = NoDiagrams

GenerateMermaidDiagram ==
    /\ "mermaid" \notin done
    /\ callResult' = [callResult EXCEPT !.mermaid =
           generateMermaidDiagram(graph, callArgs.showWeights, callArgs.maxNodes, cycles)]
    /\ done' = done \cup {"mermaid"}
    /\ UNCHANGED <<GraphVars, RepoVars, callArgs>>

GenerateDotDiagram ==
    /\ "dot" \notin done
    /\ callResult' = [callResult EXCEPT !.dot =
           generateDotDiagram(graph, callArgs.maxNodes, cycles)]
    /\ done' = done \cup {"dot"}
    /\ UNCHANGED <<GraphVars, RepoVars, callArgs>>

GenerateJsonGraph ==
    /\ "json" \notin done
    /\ callResult' = [callResult EXCEPT !.json = generateJsonGraph(graph)]
    /\ done' = done \cup {"json"}
    /\ UNCHANGED <<GraphVars, RepoVars, callArgs>>

NextSerialize == GenerateMermaidDiagram \/ GenerateDotDiagram \/ GenerateJsonGraph

SpecSerialize == InitSerialize /\ [][NextSerialize]_vars

----------------------------------------------------------------------------
(* C13 *)

NodeEntries(diagram) == Len(SelectSeq(diagram, LAMBDA l : l.kind = "node"))

EdgeEntries(diagram) == Len(SelectSeq(diagram, LAMBDA l : l.kind = "edge"))

\* C13: each of the Mermaid, DOT and JSON serializations of a graph holds
\* exactly as many node entries and edge entries as the graph has nodes and
\* edges, whatever the size of the graph.
C13_SerializationsKeepCounts ==
    /\ "mermaid" \in done =>
          /\ NodeEntries(callResult.mermaid) = Len(graph.nodes)
          /\ EdgeEntries(callResult.mermaid) = Len(graph.edges)
    /\ "dot" \in done =>
          /\ NodeEntries(callResult.dot) = Len(graph.nodes)
          /\ EdgeEntries(callResult.dot) = Len(graph.edges)
    /\ "json" \in done =>
          /\ Len(callResult.json.nodes) = Len(graph.nodes)
          /\ Len(callResult.json.edges) = Len(graph.edges)

----------------------------------------------------------------------------
(* C18 *)

RelsBetween(s, t) == SelectSeq(relationships, LAMBDA r : r.source = s /\ r.target = t)

EdgesBetween(s, t) == SelectSeq(graph.edges, LAMBDA e : e.v = s /\ e.w = t)

\* C18: after buildGraph, every pair (source, target) named by one or more
\* relationships has exactly one edge, and the weight of that edge is the sum
\* of the weights of all the relationships of the pair.
C18_EdgeWeightIsSumOfWeights ==
    "buildGraph" \in done =>
        \A s \in Nodes, t \in Nodes :
            RelsBetween(s, t) # <<>> =>
                /\ Len(EdgesBetween(s, t)) = 1
                /\ EdgesBetween(s, t)[1].label.weight =
                       SumSeq([i \in 1..Len(RelsBetween(s, t)) |-> RelsBetween(s, t)[i].weight])

----------------------------------------------------------------------------
(* tools/circular-detector: from the relationships to the report *)

RECURSIVE addAll(_, _)
\* Set.add of every element of s, in order, to the insertion-ordered set acc
addAll(acc, s) ==
    IF s = <<>> THEN acc
    ELSE addAll(IF includes(acc, s[1]) THEN acc ELSE Append(acc, s[1]), Tail(s))

countSeverity(cs, sev) == Len(SelectSeq(cs, LAMBDA c : c.severity = sev))

generateRecommendations(cs) ==
    IF Len(cs) = 0 THEN <<"No circular dependencies detected">>
    ELSE (IF countSeverity(cs, "critical") > 0 THEN <<"URGENT">> ELSE <<>>)
         \o (IF countSeverity(cs, "high") > 0 THEN <<"high-severity">> ELSE <<>>)
         \o (IF Len(cs) > 5 THEN <<"Multiple cycles detected">> ELSE <<>>)
         \o (IF \E i \in DOMAIN cs : cs[i].length = 2 THEN <<"Two-node cycles">> ELSE <<>>)
         \o (IF \E i \in DOMAIN cs : cs[i].length >= 4 THEN <<"Larger cycles">> ELSE <<>>)
         \o <<"General tips for breaking cycles">>

reportedCyclesUncapped(allCycles, maxCycles) == allCycles

\* allCycles.slice(0, maxCycles)
reportedCycles(allCycles, maxCycles) == slice(allCycles, maxCycles)

cycleReport(rels, maxCycles) ==
    LET allCycles == findCycles(buildGraph(rels))
    IN [hasCycles |-> Len(allCycles) > 0,
       totalCycles |-> Len(allCycles),
       cycles |-> reportedCycles(allCycles, maxCycles),
       summary |-> [critical |-> countSeverity(allCycles, "critical"),
                    high |-> countSeverity(allCycles, "high"),
                    medium |-> countSeverity(allCycles, "medium"),
                    low |-> countSeverity(allCycles, "low")],
       affectedFiles |-> addAll(<<>>, flatten([i \in 1..Len(allCycles) |-> allCycles[i].nodes])),
       recommendations |-> generateRecommendations(allCycles)]

----------------------------------------------------------------------------
(* Specification of the cycle report: the input is a relationship list     *)
(* over six modules and the maxCycles option                                *)

CyclePool ==
    <<importRel("A", "B"), importRel("B", "A"), importRel("C", "D"), importRel("D", "C"),
      importRel("E", "F"), importRel("F", "E"), importRel("C", "A"), importRel("D", "A"),
      importRel("E", "C"), importRel("F", "D"), importRel("F", "B")>>

poolSelection(S) == SelectSeq(CyclePool, LAMBDA r : r \in S)

InitCycles ==
    /\ done = {}
    /\ \E S \in SUBSET SeqToSet(CyclePool) :
          relationships \in {poolSelection(S), reverse(poolSelection(S))}
    /\ graph = EmptyGraph
    /\ cycles = <<>>
    /\ dag = FALSE
    /\ inputPath = ProjectAbs
    /\ excludeOpt = <<>>
    /\ includeExternal = FALSE
    /\ fileImports = NoContent
    /\ depOut = NoDepOut
    /\ mapOut = NoMapOut
    /\ callArgs \in [maxCycles : 0..MaxCyclesArg]
    /\ callResult = <<>>

\* lines 277-313 of detectCircularDependencies
CycleReport ==
    /\ done = {}
    /\ graph' = buildGraph(relationships)
    /\ cycles' = findCycles(buildGraph(relationships))
    /\ callResult' = cycleReport(relationships, callArgs.maxCycles)
    /\ done' = {"cycleReport"}
    /\ UNCHANGED <<relationships, dag, RepoVars, callArgs>>

NextCycles == CycleReport

SpecCycles == InitCycles /\ [][NextCycles]_vars

----------------------------------------------------------------------------
(* C16 *)

CycleReportDone == "cycleReport" \in done

\* C16: the report holds the first min(maxCycles, totalCycles) entries of the
\* severity-sorted list of all cycles, while hasCycles, totalCycles, the four
\* summary counts and affectedFiles are taken from all cycles: the counts add
\* up to totalCycles and affectedFiles is the duplicate-free union of the
\* members of all cycles.
C16_CapOnlyLimitsTheList ==
    CycleReportDone =>
        LET r == callResult
            n == Min(callArgs.maxCycles, Len(cycles))
        IN /\ Len(r.cycles) = n
           /\ \A i \in 1..n : r.cycles[i] = cycles[i]
           /\ r.hasCycles = (Len(cycles) > 0)
           /\ r.totalCycles = Len(cycles)
           /\ \A sev \in SeqToSet(SeverityOrder) :
                 r.summary[sev] = Cardinality({i \in DOMAIN cycles : cycles[i].severity = sev})
           /\ r.summary.critical + r.summary.high + r.summary.medium + r.summary.low
                 = r.totalCycles
           /\ SeqToSet(r.affectedFiles) = UNION {SeqToSet(cycles[i].nodes) : i \in DOMAIN cycles}
           /\ NoDuplicates(r.affectedFiles)

\* three cycles found, the cap of 1 or 2 cuts the list, and a cycle that is
\* not listed still counts in the summary and in affectedFiles
C16_Witness ==
    /\ CycleReportDone
    /\ Len(cycles) = 3
    /\ callArgs.maxCycles \in 1..2
    /\ Len(callResult.cycles) = callArgs.maxCycles
    /\ callResult.totalCycles = 3
    /\ Len(callResult.affectedFiles) = 6
    /\ callResult.summary.low >= 1
    /\ \A i \in DOMAIN callResult.cycles : callResult.cycles[i].severity # "low"

----------------------------------------------------------------------------
(* C17 *)

SeverityRank(sev) == CHOOSE k \in DOMAIN SeverityOrder : SeverityOrder[k] = sev

\* position of a cycle in the list of components emitted by the SCC search
EmittedAt(c) ==
    LET sccs == findStronglyConnectedComponents(graph)
    IN CHOOSE k \in DOMAIN sccs : sccs[k] = c.nodes

\* C17: findCycles lists critical cycles first, then high, medium, low, and
\* cycles of equal severity stay in the order in which the SCC search emitted
\* their components.
C17_SortedBySeverityStable ==
    CycleReportDone =>
        /\ Len(cycles) = Len(findStronglyConnectedComponents(graph))
        /\ \A i, j \in DOMAIN cycles :
              i < j =>
                 /\ SeverityRank(cycles[i].severity) <= SeverityRank(cycles[j].severity)
                 /\ cycles[i].severity = cycles[j].severity
                       => EmittedAt(cycles[i]) < EmittedAt(cycles[j])

\* three cycles, two of them of equal severity, and the sort moved one: the
\* component emitted first is not listed first
C17_Witness ==
    /\ CycleReportDone
    /\ Len(cycles) = 3
    /\ \E i, j \in DOMAIN cycles : i < j /\ cycles[i].severity = cycles[j].severity
    /\ \E i, j \in DOMAIN cycles : cycles[i].severity # cycles[j].severity
    /\ EmittedAt(cycles[1]) # 1

----------------------------------------------------------------------------
(* The tools as called by the server.  An operation either throws          *)
(* (threw, with the problem and the path of the Error message) or returns   *)
(* a value; `scanned` tells whether it got as far as scanning for files.    *)
(* `content` maps every file that can be read and parsed to its imports:    *)
(* for any other file parseTypeScriptFile returns null.                     *)

\* fs.statSync(p).isDirectory()
isDirectory(p) == resolve(p) \in FsDirs

Thrown(problem, path) ==
    [threw |-> TRUE, problem |-> problem, path |-> path, scanned |-> FALSE, value |-> <<>>]

Returned(value) ==
    [threw |-> FALSE, problem |-> "", path |-> <<>>, scanned |-> TRUE, value |-> value]

pathProblemExistsOnly(path) ==
    IF ~existsSync(path) THEN "Path does not exist" ELSE ""

pathProblemNone(path) == ""

\* the two checks that open the operations that need a directory
pathProblem(path) ==
    IF ~existsSync(path) THEN "Path does not exist"
    ELSE IF ~isDirectory(path) THEN "Path must be a directory"
    ELSE ""

RECURSIVE detectorProbe(_, _, _, _)
detectorProbe(file, fileSet, resolvedTarget, i) ==
    IF i > Len(RelationshipExtensions) THEN <<>>
    ELSE LET withExt == addExt(resolvedTarget, RelationshipExtensions[i])
             indexPath == join(resolvedTarget, "index" \o RelationshipExtensions[i])
         IN IF withExt \in fileSet THEN <<importRel(file, withExt)>>
            ELSE IF indexPath \in fileSet THEN <<importRel(file, indexPath)>>
            ELSE detectorProbe(file, fileSet, resolvedTarget, i + 1)

detectorRelsOfDep(file, dep, fileSet) ==
    IF dep.type # "internal" THEN <<>>
    ELSE LET resolvedTarget == resolve(dep.to)
         IN IF resolvedTarget \in fileSet
            THEN <<importRel(file, resolvedTarget)>>
            ELSE detectorProbe(file, fileSet, resolvedTarget, 1)

detectorExtractRelationships(content, files) ==
    LET fileSet == {resolve(files[i]) : i \in DOMAIN files}
    IN flatten([i \in 1..Len(files) |->
         LET deps == extractDependencies(content, files[i])
         IN flatten([j \in 1..Len(deps) |-> detectorRelsOfDep(files[i], deps[j], fileSet)])])

detectCircularDependencies(content, path, excl, maxCycles) ==
    IF pathProblem(path) # "" THEN Thrown(pathProblem(path), path)
    ELSE LET files == scanFiles(path, excl)
         IN IF Len(files) = 0
            THEN Returned([hasCycles |-> FALSE, totalCycles |-> 0, cycles |-> <<>>,
                           summary |-> [critical |-> 0, high |-> 0, medium |-> 0, low |-> 0],
                           affectedFiles |-> <<>>,
                           recommendations |-> <<"No files found to analyze.">>])
            ELSE Returned(cycleReport(detectorExtractRelationships(content, files), maxCycles))

mapModuleRelationshipsTool(content, path, excl) ==
    IF pathProblem(path) # "" THEN Thrown(pathProblem(path), path)
    ELSE Returned(mapModuleRelationships(content, path, excl))

generateDependencyGraphTool(content, path, excl, inclExternal) ==
    IF pathProblemExistsOnly(path) # "" THEN Thrown(pathProblemExistsOnly(path), path)
    ELSE Returned(generateDependencyGraph(content, path, excl, inclExternal))

\* the text of the source files of the project, as the complexity analyzer
\* sees it
SourceTexts ==
    <<[text |-> <<[kind |-> "code", n |-> 10]>>,
       functions |-> <<[name |-> "f", branches |-> 1, nested |-> <<>>]>>],
      [text |-> <<[kind |-> "//", n |-> 2], [kind |-> "code", n |-> 3]>>,
       functions |-> <<>>],
      [text |-> <<[kind |-> "code", n |-> 100]>>,
       functions |-> <<[name |-> "g", branches |-> 12, nested |-> <<>>],
                       [name |-> "h", branches |-> 0, nested |-> <<>>]>>]>>

\* the file at filePath as readFileSync finds it
sourceFileAt(content, filePath) ==
    LET k == CHOOSE i \in DOMAIN SourceFiles : SourceFiles[i] = resolve(filePath)
    IN [path |-> filePath,
        language |-> "typescript",
        readable |-> resolve(filePath) \in DOMAIN content,
        text |-> SourceTexts[k].text,
        functions |-> SourceTexts[k].functions,
        lines |-> <<>>,
        trailer |-> 0]

RECURSIVE insertByComplexity(_, _)
insertByComplexity(sorted, f) ==
    IF sorted = <<>> THEN <<f>>
    ELSE IF f.cyclomaticComplexity > sorted[1].cyclomaticComplexity THEN <<f>> \o sorted
    ELSE <<sorted[1]>> \o insertByComplexity(Tail(sorted), f)

RECURSIVE sortByComplexity(_)
\* files.sort((a, b) => b.cyclomaticComplexity - a.cyclomaticComplexity), stable
sortByComplexity(fs) ==
    IF fs = <<>> THEN <<>>
    ELSE insertByComplexity(sortByComplexity(SubSeq(fs, 1, Len(fs) - 1)), fs[Len(fs)])

\* if (fileComplexity) files.push(fileComplexity)
keepNonNull(results) == SelectSeq(results, LAMBDA r : ~r.null)

DefaultThreshold == 10

\* analyzeComplexity without its hotspot list
analyzeComplexity(content, path, excl, threshold) ==
    IF pathProblemExistsOnly(path) # "" THEN Thrown(pathProblemExistsOnly(path), path)
    ELSE LET filePaths == IF isDirectory(path) THEN scanFiles(path, excl) ELSE <<path>>
             files == keepNonNull([i \in 1..Len(filePaths) |->
                          fileComplexityOf(sourceFileAt(content, filePaths[i]))])
             totalComplexity == SumSeq([i \in 1..Len(files) |-> files[i].cyclomaticComplexity])
             count(lo, hi) == Len(SelectSeq(files, LAMBDA f :
                                 /\ f.cyclomaticComplexity >= lo
                                 /\ hi = 0 \/ f.cyclomaticComplexity < hi))
         IN IF Len(filePaths) = 0
            THEN Returned([totalFiles |-> 0, totalComplexity |-> 0,
                           averageComplexity |-> Ratio(0, 1), files |-> <<>>,
                           summary |-> [lowComplexity |-> 0, mediumComplexity |-> 0,
                                        highComplexity |-> 0, veryHighComplexity |-> 0]])
            ELSE Returned([totalFiles |-> Len(files),
                           totalComplexity |-> totalComplexity,
                           averageComplexity |-> IF Len(files) > 0
                                                 THEN Ratio(totalComplexity, Len(files))
                                                 ELSE Ratio(0, 1),
                           files |-> sortByComplexity(files),
                           summary |->
                             [lowComplexity |-> Len(SelectSeq(files, LAMBDA f :
                                  f.cyclomaticComplexity < threshold)),
                              mediumComplexity |-> count(threshold, threshold * 2),
                              highComplexity |-> count(threshold * 2, threshold * 4),
                              veryHighComplexity |-> count(threshold * 4, 0)]])

RECURSIVE insertByUsage(_, _)
insertByUsage(sorted, d) ==
    IF sorted = <<>> THEN <<d>>
    ELSE IF d.usageCount > sorted[1].usageCount THEN <<d>> \o sorted
    ELSE <<sorted[1]>> \o insertByUsage(Tail(sorted), d)

RECURSIVE sortByUsage(_)
\* result.sort((a, b) => b.usageCount - a.usageCount), stable
sortByUsage(ds) ==
    IF ds = <<>> THEN <<>>
    ELSE insertByUsage(sortByUsage(SubSeq(ds, 1, Len(ds) - 1)), ds[Len(ds)])

\* identifyExternalDependencies without the category of each package
identifyExternalDependencies(content, files) ==
    LET uses == flatten([i \in 1..Len(files) |->
                    LET deps == SelectSeq(extractDependencies(content, files[i]),
                                          LAMBDA d : d.type = "external" /\ d.packageName # <<>>)
                    IN [j \in 1..Len(deps) |-> [file |-> files[i], name |-> deps[j].packageName]]])
        names == addAll(<<>>, [k \in 1..Len(uses) |-> uses[k].name])
        usesOf(n) == SelectSeq(uses, LAMBDA u : u.name = n)
    IN sortByUsage([k \in 1..Len(names) |->
           [name |-> names[k],
            usedBy |-> addAll(<<>>, [m \in 1..Len(usesOf(names[k])) |-> usesOf(names[k])[m].file]),
            usageCount |-> Len(usesOf(names[k]))]])

\* getArchitectureOverview without layers, entry points, style and diagram
getArchitectureOverview(content, path, excl) ==
    IF pathProblem(path) # "" THEN Thrown(pathProblem(path), path)
    ELSE LET files == scanFiles(path, excl)
             externalDependencies == identifyExternalDependencies(content, files)
         IN IF Len(files) = 0
            THEN Returned([externalDependencies |-> <<>>,
                           summary |-> [totalFiles |-> 0, totalDependencies |-> 0,
                                        externalDependencyCount |-> 0]])
            ELSE Returned([externalDependencies |-> externalDependencies,
                           summary |->
                             [totalFiles |-> Len(files),
                              totalDependencies |->
                                  SumSeq([i \in 1..Len(externalDependencies) |->
                                             externalDependencies[i].usageCount]),
                              externalDependencyCount |-> Len(externalDependencies)]])

DefaultMaxCycles == 20

\* the operation behind each tool name, with the defaults of its schema
operationOf(name, content, path, excl) ==
    CASE name = "generate_dependency_graph" ->
            generateDependencyGraphTool(content, path, excl, FALSE)
      [] name = "detect_circular_dependencies" ->
            detectCircularDependencies(content, path, excl, DefaultMaxCycles)
      [] name = "map_module_relationships" ->
            mapModuleRelationshipsTool(content, path, excl)
      [] name = "analyze_complexity" ->
            analyzeComplexity(content, path, excl, DefaultThreshold)
      [] name = "get_architecture_overview" ->
            getArchitectureOverview(content, path, excl)

\* the CallToolRequestSchema handler; the formatted text of a result is kept
\* as the result itself
callTool(name, content, path, excl) ==
    LET respond(outcome) ==
            IF outcome.threw
            THEN [isError |-> TRUE,
                  text |-> <<"Error: ", outcome.problem, ": ", outcome.path>>,
                  result |-> <<>>,
                  scanned |-> outcome.scanned]
            ELSE [isError |-> FALSE,
                  text |-> <<>>,
                  result |-> outcome.value,
                  scanned |-> outcome.scanned]
    IN respond(operationOf(name, content, path, excl))

----------------------------------------------------------------------------
(* Specification of the server: one tool call on the project, where some   *)
(* source files may be unreadable                                           *)

ToolNames == {"generate_dependency_graph", "detect_circular_dependencies",
              "map_module_relationships", "analyze_complexity",
              "get_architecture_overview"}

DirectoryTools == {"detect_circular_dependencies", "map_module_relationships",
                   "get_architecture_overview"}

MissingPaths == {<<"/", "w", "gone">>, <<"gone">>}

ServerImportSets == {SeqToSet(s) : s \in SeqsUpTo(ImportPairs, MaxServerImports)}

UnreadableSets ==
    {{}, SeqToSet(SourceFiles)} \cup {{SourceFiles[i]} : i \in DOMAIN SourceFiles}

\* what parseTypeScriptFile can read: the files outside `unreadable`
readableContent(imports, unreadable) ==
    [f \in (DOMAIN imports) \ unreadable |-> imports[f]]

InitServer ==
    /\ done = {}
    /\ relationships = <<>>
    /\ graph = EmptyGraph
    /\ cycles = <<>>
    /\ dag = FALSE
    /\ excludeOpt = <<>>
    /\ includeExternal = FALSE
    /\ depOut = NoDepOut
    /\ mapOut = NoMapOut
    /\ callResult = <<>>
    /\ \/ /\ inputPath \in {ProjectAbs, ProjectRel}
          /\ fileImports \in {contentOf(P) : P \in ServerImportSets}
          /\ callArgs \in [name : ToolNames, unreadable : UnreadableSets]
       \/ /\ inputPath \in MissingPaths
          /\ fileImports = NoContent
          /\ callArgs \in [name : ToolNames, unreadable : {{}}]
       \/ /\ inputPath = SourceFiles[1]
          /\ fileImports = NoContent
          /\ callArgs \in [name : DirectoryTools, unreadable : {{}}]

CallTool ==
    /\ done = {}
    /\ callResult' = callTool(callArgs.name, readableContent(fileImports, callArgs.unreadable),
                              inputPath, excludeOpt)
    /\ done' = {"callTool"}
    /\ UNCHANGED <<GraphVars, RepoVars, callArgs>>

NextServer == CallTool

SpecServer == InitServer /\ [][NextServer]_vars

----------------------------------------------------------------------------
(* C14 *)

ServerCallDone == "callTool" \in done

ProjectGiven == inputPath \in {ProjectAbs, ProjectRel}

\* the project as it would be had the failing files held no import
WithoutImportsOf(imports, failing) ==
    [f \in DOMAIN imports |-> IF f \in failing THEN <<>> ELSE imports[f]]

----------------------------------------------------------------------------
(* C15 *)

\* C15: when the path given to detectCircularDependencies,
\* mapModuleRelationships or getArchitectureOverview does not exist or is not
\* a directory, nothing is scanned, there is no result, and the handler
\* answers isError = true with a text that names the problem and the path.
C15_BadPathIsAnError ==
    /\ ServerCallDone
    /\ callArgs.name \in DirectoryTools
    /\ resolve(inputPath) \notin FsDirs
    => /\ callResult.isError
       /\ ~callResult.scanned
       /\ callResult.result = <<>>
       /\ callResult.text =
             <<"Error: ",
               IF resolve(inputPath) \in FsFiles
               THEN "Path must be a directory" ELSE "Path does not exist",
               ": ", inputPath>>

\* a file is given where a directory is needed
C15_Witness ==
    /\ ServerCallDone
    /\ callArgs.name = "map_module_relationships"
    /\ inputPath = SourceFiles[1]
    /\ callResult.isError
    /\ callResult.text[2] = "Path must be a directory"

----------------------------------------------------------------------------
(* classifyDependency of both ECMAScript parsers on every small file system *)

MaxPresent == 3

\* the file the import is written in
ImportingFile == SourceFiles[3]

\* the relative specifiers under study: "./a" and "./a.js"
RelativeSpecifiers == {Catalog[1], Catalog[2]}

\* the paths whose existence classifyDependency can ask about for "./a"
ProbedPaths ==
    LET p == resolveFrom(dirname(ImportingFile), Catalog[1])
    IN {addExt(p, ResolveExtensions[i]) : i \in DOMAIN ResolveExtensions}
       \cup {join(p, "index" \o ResolveExtensions[i]) : i \in DOMAIN ResolveExtensions}

InitResolve ==
    /\ done = {}
    /\ relationships = <<>>
    /\ graph = EmptyGraph
    /\ cycles = <<>>
    /\ dag = FALSE
    /\ inputPath = ProjectAbs
    /\ excludeOpt = <<>>
    /\ includeExternal = FALSE
    /\ fileImports = NoContent
    /\ depOut = NoDepOut
    /\ mapOut = NoMapOut
    /\ \E present \in {S \in SUBSET ProbedPaths : Cardinality(S) <= MaxPresent} :
          callArgs \in [parser : {"typescript", "javascript"},
                        spec : RelativeSpecifiers,
                        fromFile : {ImportingFile},
                        present : {present}]
    /\ callResult = <<>>

ClassifyDependency ==
    /\ done = {}
    /\ callResult' =
          IF callArgs.parser = "typescript"
          THEN classifyDependencyIn(callArgs.present, callArgs.spec, callArgs.fromFile)
          ELSE jsClassifyDependencyIn(callArgs.present, callArgs.spec, callArgs.fromFile)
    /\ done' = {"classifyDependency"}
    /\ UNCHANGED <<relationships, graph, cycles, dag, RepoVars, callArgs>>

NextResolve == ClassifyDependency

SpecResolve == InitResolve /\ [][NextResolve]_vars

----------------------------------------------------------------------------
(* C19 *)

\* the extensions of the parser's list that are not the empty one
NamedExtensions(extensions) == SelectSeq(extensions, LAMBDA e : e # "")

\* the order the claim gives: the literal path, the path with each extension,
\* the index file with each extension
LiteralExtensionsIndex(extensions, p) ==
    <<p>>
    \o [i \in DOMAIN NamedExtensions(extensions) |->
           addExt(p, NamedExtensions(extensions)[i])]
    \o [i \in DOMAIN NamedExtensions(extensions) |->
           join(p, "index" \o NamedExtensions(extensions)[i])]

RECURSIVE FirstExisting(_, _, _)
FirstExisting(present, candidates, fallback) ==
    IF candidates = <<>> THEN fallback
    ELSE IF Head(candidates) \in present THEN Head(candidates)
    ELSE FirstExisting(present, Tail(candidates), fallback)

\* C19: for a relative specifier and every file system, the target of
\* classifyDependency is the first existing path among the literal resolved
\* path, then the resolved path with each extension of the list, then the
\* index file of the resolved directory; when none exists the resolved path
\* is kept; the kind is internal.
C19_ProbeOrderLiteralExtensionsIndex ==
    "classifyDependency" \in done =>
       LET p == resolveFrom(dirname(callArgs.fromFile), callArgs.spec)
           extensions == IF callArgs.parser = "typescript"
                         THEN ResolveExtensions ELSE JsResolveExtensions
       IN /\ callResult.type = "internal"
          /\ callResult.to =
                FirstExisting(callArgs.present,
                              LiteralExtensionsIndex(extensions, p), p)

----------------------------------------------------------------------------
(* classifyPythonDependency of parsers/python-parser *)

\* An import path is the sequence of its pieces, every "." a piece of its own:
\* "..m.n" is <<".", ".", "m", ".", "n">>.

MaxDots == 3

PyBuiltins == {"os", "sys", "json"}

\* moduleName.split('.')[0] is in the list of standard modules
isPythonBuiltin(importPath) ==
    importPath # <<>> /\ importPath[1] \in PyBuiltins

RECURSIVE countDots(_)
\* the while loop counting the leading dots
countDots(moduleName) ==
    IF moduleName # <<>> /\ Head(moduleName) = "."
    THEN 1 + countDots(Tail(moduleName))
    ELSE 0

RECURSIVE stripDots(_)
\* moduleName once the while loop has sliced the leading dots off
stripDots(moduleName) ==
    IF moduleName # <<>> /\ Head(moduleName) = "."
    THEN stripDots(Tail(moduleName))
    ELSE moduleName

\* moduleName.split('.') without its empty parts
pyParts(moduleName) == SelectSeq(moduleName, LAMBDA t : t # ".")

RECURSIVE dirnameTimes(_, _)
dirnameTimes(p, n) == IF n <= 0 THEN p ELSE dirnameTimes(dirname(p), n - 1)

pyTargetDirPerDot(importPath, fromFile) ==
    dirnameTimes(dirname(fromFile), countDots(importPath))

\* targetDir after `for (let i = 1; i < dots; i++)`
pyTargetDir(importPath, fromFile) ==
    dirnameTimes(dirname(fromFile), countDots(importPath) - 1)

RECURSIVE joinParts(_, _)
\* path.join of the parts onto a directory, one after the other
joinParts(dir, parts) ==
    IF parts = <<>> THEN dir
    ELSE joinParts(IF dir = <<".">> THEN <<Head(parts)>> ELSE dir \o <<Head(parts)>>,
                   Tail(parts))

\* resolvedPath + '.py'
withPy(p) == IF p = <<"/">> THEN <<"/", ".py">> ELSE addExt(p, ".py")

\* the first of possiblePaths that exists, else the path itself
pyFirstPossible(present, resolvedPath) ==
    IF existsIn(present, withPy(resolvedPath)) THEN withPy(resolvedPath)
    ELSE IF existsIn(present, resolvedPath \o <<"__init__.py">>)
    THEN resolvedPath \o <<"__init__.py">>
    ELSE resolvedPath

classifyPythonDependency(present, importPath, fromFile, basePath) ==
    LET isRelative == importPath # <<>> /\ importPath[1] = "."
        dep(to, type, pkg) == [from |-> fromFile, to |-> to, type |-> type,
                               packageName |-> pkg]
        parts == pyParts(importPath)
        locals == <<withPy(joinParts(basePath, parts)),
                    joinParts(basePath, parts) \o <<"__init__.py">>,
                    withPy(joinParts(basePath \o <<"src">>, parts)),
                    joinParts(basePath \o <<"src">>, parts) \o <<"__init__.py">>>>
        found == {i \in 1..4 : existsIn(present, locals[i])}
    IN IF isPythonBuiltin(importPath)
       THEN dep(importPath, "builtin", importPath)
       ELSE IF isRelative
       THEN dep(pyFirstPossible(present,
                   joinParts(pyTargetDir(importPath, fromFile),
                             pyParts(stripDots(importPath)))),
                "internal", <<>>)
       ELSE IF found # {}
       THEN dep(locals[CHOOSE i \in found : \A j \in found : i <= j], "internal", <<>>)
       ELSE dep(importPath, "external", <<importPath[1]>>)

\* the module names written after the dots
PyModuleNames == {<<>>, <<"m">>, <<"m", ".", "n">>}

PyImportPaths ==
    {[i \in 1..k |-> "."] \o name : k \in 1..MaxDots, name \in PyModuleNames}
    \cup {<<"os">>, <<"m">>, <<"pkg">>}

PyFromFiles ==
    {<<"/", "f.py">>, <<"/", "w", "f.py">>, ProjectAbs \o <<"f.py">>,
     ProjectAbs \o <<"old", "f.py">>}

PyProbedPaths ==
    {ProjectAbs \o <<"m.py">>, ProjectAbs \o <<"m", "__init__.py">>,
     Cwd \o <<"m.py">>, Cwd \o <<"m", "__init__.py">>}

InitPython ==
    /\ done = {}
    /\ relationships = <<>>
    /\ graph = EmptyGraph
    /\ cycles = <<>>
    /\ dag = FALSE
    /\ inputPath = ProjectAbs
    /\ excludeOpt = <<>>
    /\ includeExternal = FALSE
    /\ fileImports = NoContent
    /\ depOut = NoDepOut
    /\ mapOut = NoMapOut
    /\ callArgs \in [importPath : PyImportPaths,
                     fromFile : PyFromFiles,
                     present : SUBSET PyProbedPaths]
    /\ callResult = <<>>

ClassifyPythonDependency ==
    /\ done = {}
    /\ callResult' = classifyPythonDependency(callArgs.present, callArgs.importPath,
                                              callArgs.fromFile, inputPath)
    /\ done' = {"classifyPythonDependency"}
    /\ UNCHANGED <<relationships, graph, cycles, dag, RepoVars, callArgs>>

NextPython == ClassifyPythonDependency

SpecPython == InitPython /\ [][NextPython]_vars

----------------------------------------------------------------------------
(* C20 *)

\* the n-th ancestor of an absolute directory; the root is its own parent
Ancestor(dir, n) == SubSeq(dir, 1, Max(1, Len(dir) - n))

\* the leading dots of the import of the call, and what follows them
LeadingDots == Cardinality({i \in DOMAIN callArgs.importPath :
                               \A j \in 1..i : callArgs.importPath[j] = "."})

NameAfterDots ==
    SelectSeq(SubSeq(callArgs.importPath, LeadingDots + 1, Len(callArgs.importPath)),
              LAMBDA t : t # ".")

RelativePythonImportDone ==
    /\ "classifyPythonDependency" \in done
    /\ LeadingDots >= 1

\* the target of a relative import whose name is resolved against `base`
ResolvedAgainst(base) ==
    LET q == base \o NameAfterDots
        module == IF q = <<"/">> THEN <<"/", ".py">>
                  ELSE [q EXCEPT ![Len(q)] = @ \o ".py"]
        package == q \o <<"__init__.py">>
    IN IF module \in callArgs.present THEN module
       ELSE IF package \in callArgs.present THEN package
       ELSE q

----------------------------------------------------------------------------
(* C21 *)

\* the files that import f, and the files that f imports, in the module graph
ImportersOf(f) ==
    {resolve(mapOut.relationships[i].source) : i \in
        {j \in DOMAIN mapOut.relationships :
            resolve(mapOut.relationships[j].target) = resolve(f)}}

ImportedBy(f) ==
    {resolve(mapOut.relationships[i].target) : i \in
        {j \in DOMAIN mapOut.relationships :
            resolve(mapOut.relationships[j].source) = resolve(f)}}

\* C21: for every scanned file, afferentCoupling is the number of distinct
\* files that import it and efferentCoupling the number of distinct files it
\* imports, also when a target is reached through several specifiers.
C21_CouplingIsDegree ==
    MapperDone =>
       \A f \in DOMAIN mapOut.couplingMetrics :
          /\ mapOut.couplingMetrics[f].afferentCoupling = Cardinality(ImportersOf(f))
          /\ mapOut.couplingMetrics[f].efferentCoupling = Cardinality(ImportedBy(f))

----------------------------------------------------------------------------
(* C22 *)

\* C22: the cyclomaticComplexity of an analysed file is the sum of the
\* complexity of its functionsComplexity entries, or 1 when it has none, and
\* functionCount is the number of those entries.
C22_FileComplexityIsSumOfFunctions ==
    FileAnalysed =>
       LET fns == callResult.functionsComplexity
           total == SumSeq([i \in 1..Len(fns) |-> fns[i].complexity])
       IN /\ callResult.cyclomaticComplexity = (IF Len(fns) = 0 THEN 1 ELSE total)
          /\ callResult.functionCount = Len(fns)

----------------------------------------------------------------------------
(* Specification of findCycles on graphs whose edges carry different weights *)

MaxWeight == 2

\* the ordered pairs of distinct nodes among A, B and C
WeightedPairs == <<<<"A", "B">>, <<"B", "A">>, <<"B", "C">>, <<"C", "B">>,
                   <<"C", "A">>, <<"A", "C">>>>

\* one relationship for each chosen pair, with the weight chosen for it
weightedRels(w) ==
    LET chosen == SelectSeq(WeightedPairs, LAMBDA p : w[p] > 0)
    IN [i \in 1..Len(chosen) |->
           [source |-> chosen[i][1], target |-> chosen[i][2],
            type |-> "import", weight |-> w[chosen[i]]]]

InitWeighted ==
    /\ done = {}
    /\ \E w \in [SeqToSet(WeightedPairs) -> 0..MaxWeight] :
          relationships \in {weightedRels(w), reverse(weightedRels(w))}
    /\ graph = EmptyGraph
    /\ cycles = <<>>
    /\ dag = FALSE
    /\ inputPath = ProjectAbs
    /\ excludeOpt = <<>>
    /\ includeExternal = FALSE
    /\ fileImports = NoContent
    /\ depOut = NoDepOut
    /\ mapOut = NoMapOut
    /\ NoCall

NextWeighted == BuildGraph \/ FindCycles

SpecWeighted == InitWeighted /\ [][NextWeighted]_vars

----------------------------------------------------------------------------
(* C23 *)

\* the pairs of nodes that follow each other along the node list of a cycle,
\* the last one being followed by the first
AlongCycle(c) ==
    {<<c.nodes[i], c.nodes[(i % Len(c.nodes)) + 1]>> : i \in DOMAIN c.nodes}

\* C23: for every reported cycle the first suggestion names an edge of the
\* graph between two members of the cycle whose weight is the lowest among
\* the graph's edges along that cycle, and the four generic suggestions
\* follow it: five suggestions in all.
C23_WeakestLinkIsLightestEdgeOfCycle ==
    FindCyclesDone =>
       \A k \in DOMAIN cycles :
          LET c == cycles[k]
              named == c.suggestions[1]
          IN /\ Len(c.suggestions) = 5
             /\ SubSeq(c.suggestions, 2, 5) = GenericSuggestions
             /\ named[1] \in SeqToSet(c.nodes) /\ named[2] \in SeqToSet(c.nodes)
             /\ hasEdge(graph, named[1], named[2])
             /\ \A p \in AlongCycle(c) :
                   hasEdge(graph, p[1], p[2]) =>
                      edge(graph, named[1], named[2]).weight
                         <= edge(graph, p[1], p[2]).weight

----------------------------------------------------------------------------
(* C27 *)

\* C27: the node list of every reported cycle is a closed path of the graph:
\* each node has an edge to the next one, and the last one to the first.
C27_CycleNodesAreClosedPath ==
    FindCyclesDone =>
       \A k \in DOMAIN cycles :
          \A p \in AlongCycle(cycles[k]) : hasEdge(graph, p[1], p[2])

----------------------------------------------------------------------------
(* scanDirectory and scanPythonFiles, one directory entry at a time         *)
(*                                                                          *)
(* The scanned tree is a chain of directories named d below the scan root;  *)
(* each of them may hold a source file and a symbolic link whose name has   *)
(* the extension of a source file.  A Dirent of a symbolic link answers     *)
(* false to isDirectory() and to isFile().  The state of a scan is the      *)
(* stack of the calls of scan(dir, depth), each with the index of the entry *)
(* its loop is at, and the files pushed so far.                             *)

MaxTreeDepth == 3

MaxDepthOption == 2

ScanDirectoryExclude == <<"node_modules", "dist", "build", ".git", "coverage", "__pycache__">>

ScanDirectoryExtensions == <<".ts", ".tsx", ".js", ".jsx", ".mjs", ".cjs">>

ScanPythonExclude == <<"node_modules", "venv", ".venv", "env", ".env", "__pycache__",
                       ".git", "dist", "build", "egg-info">>

\* fs.readdirSync(dir, { withFileTypes: true }) in the tree of the call
readdirOf(args, dir) ==
    LET k == Len(dir) - Len(ProjectAbs) + 1
        ext == IF args.language = "python" THEN ".py" ELSE ".ts"
    IN IF k > Len(args.levels) THEN <<>>
       ELSE (IF args.levels[k].file THEN <<[name |-> "a" \o ext, kind |-> "file"]>> ELSE <<>>)
            \o (IF args.levels[k].link THEN <<[name |-> "c" \o ext, kind |-> "link"]>> ELSE <<>>)
            \o (IF k < Len(args.levels) THEN <<[name |-> "d", kind |-> "dir"]>> ELSE <<>>)

\* exclude.some(ex => entry.name === ex || entry.name.endsWith(ex))
pyExcluded(name, exclude) ==
    \E k \in DOMAIN exclude :
        \E b \in KnownBases \cup {""} : name = b \o exclude[k]

\* entry.name.endsWith('.py')
endsWithPy(name) == \E b \in KnownBases \cup {""} : name = b \o ".py"

neverTooDeep(depth, maxDepth) == FALSE

\* if (depth > maxDepth) return;
tooDeep(depth, maxDepth) == depth > maxDepth

\* one step of scan: the loop of the innermost call handles its next entry,
\* or the call returns when its entries are exhausted
scanStep(args, st) ==
    LET top == st.stack[Len(st.stack)]
        below == SubSeq(st.stack, 1, Len(st.stack) - 1)
        entries == readdirOf(args, top.dir)
        entry == entries[top.i]
        fullPath == join(top.dir, entry.name)
        excluded == IF args.language = "python"
                    THEN pyExcluded(entry.name, ScanPythonExclude)
                    ELSE isExcluded(entry.name, fullPath, ScanDirectoryExclude)
        listed == IF args.language = "python"
                  THEN endsWithPy(entry.name)
                  ELSE includes(ScanDirectoryExtensions, extname(entry.name))
        advanced == Append(below, [top EXCEPT !.i = @ + 1])
    IN IF top.i > Len(entries)
       THEN [st EXCEPT !.stack = below]
       ELSE IF excluded
       THEN [st EXCEPT !.stack = advanced]
       ELSE IF entry.kind = "dir"
       THEN IF tooDeep(top.depth + 1, args.maxDepth)
            THEN [st EXCEPT !.stack = advanced]
            ELSE [st EXCEPT !.stack = Append(advanced,
                                  [dir |-> fullPath, depth |-> top.depth + 1, i |-> 1])]
       ELSE IF entry.kind = "file" /\ listed
       THEN [stack |-> advanced, files |-> Append(st.files, fullPath)]
       ELSE [st EXCEPT !.stack = advanced]

TreeLevels ==
    UNION {[1..n -> [file : BOOLEAN, link : BOOLEAN]] : n \in 1..(MaxTreeDepth + 1)}

InitScan ==
    /\ done = {}
    /\ relationships = <<>>
    /\ graph = EmptyGraph
    /\ cycles = <<>>
    /\ dag = FALSE
    /\ inputPath = ProjectAbs
    /\ excludeOpt = <<>>
    /\ includeExternal = FALSE
    /\ fileImports = NoContent
    /\ depOut = NoDepOut
    /\ mapOut = NoMapOut
    /\ callArgs \in [language : {"typescript", "python"},
                     maxDepth : 0..MaxDepthOption,
                     levels : TreeLevels]
    /\ callResult = [stack |-> <<[dir |-> inputPath, depth |-> 0, i |-> 1]>>,
                     files |-> <<>>]

Scan ==
    /\ callResult.stack # <<>>
    /\ callResult' = scanStep(callArgs, callResult)
    /\ done' = IF callResult'.stack = <<>> THEN {"scan"} ELSE done
    /\ UNCHANGED <<GraphVars, RepoVars, callArgs>>

NextScan == Scan

SpecScan == InitScan /\ [][NextScan]_vars

\* scan is a synchronous call: once started it runs until it returns
SpecScanFair == SpecScan /\ WF_vars(Scan)

----------------------------------------------------------------------------
(* C24 *)

\* how many levels below the scan root a path lies
LevelsBelowRoot(p) == Len(p) - Len(inputPath)

ScanDone == "scan" \in done

\* no directory deeper than maxDepth is being read, no returned file lies in
\* one, and no returned file is a symbolic link
ScanStaysWithinDepth ==
    /\ \A k \in DOMAIN callResult.stack :
          LevelsBelowRoot(callResult.stack[k].dir) <= callArgs.maxDepth
    /\ \A k \in DOMAIN callResult.files :
          /\ LevelsBelowRoot(callResult.files[k]) - 1 <= callArgs.maxDepth
          /\ callResult.files[k][Len(callResult.files[k])] \in {"a.ts", "a.py"}

\* C24: the scan of a finite tree terminates, never reads a directory more
\* than maxDepth levels below the scan root, never returns a file lying in
\* such a directory, and neither follows nor lists a symbolic link.
C24_ScanBoundedAndTerminates == [](ScanStaysWithinDepth) /\ <>ScanDone

\* a finished scan of a tree deeper than maxDepth, with files and links both
\* within and beyond the depth bound, that returned the files within it
C24_Witness ==
    /\ ScanDone
    /\ callArgs.maxDepth = 1
    /\ Len(callArgs.levels) = 4
    /\ \A k \in 1..4 : callArgs.levels[k].file /\ callArgs.levels[k].link
    /\ Len(callResult.files) = 2

----------------------------------------------------------------------------
(* GitHubClient.execute (code-review-mcp, utils/github-client)              *)
(*                                                                          *)
(* One step is one iteration of the loop of execute: the wait for the rate  *)
(* limit, the call of the operation, and what follows its outcome.  The     *)
(* outcome of the operation is chosen by the environment.  An error is      *)
(* described by whether it is an Error, whether it is a GitHubClientError,  *)
(* its status (0: none) and the network code its message includes.          *)

MaxRetriesOption == 2

DefaultRemaining == 5000

RetryableStatuses == {429, 502, 503, 504}

RetryableMessages == {"ECONNRESET", "ETIMEDOUT", "ENOTFOUND"}

isRetryableAlways(error) == TRUE

isRetryableError(error) ==
    /\ error.isError
    /\ \/ error.status \in RetryableStatuses
       \/ error.message \in RetryableMessages

\* transformError, without the wording of the message
transformError(error) ==
    IF error.isClientError THEN error
    ELSE [error EXCEPT !.isError = TRUE, !.isClientError = TRUE,
                       !.status = IF error.status = 0 THEN 500 ELSE error.status]

\* updateRateLimitFromHeaders: header -1 stands for an absent header
updateRateLimitFromHeaders(remaining, header) ==
    IF header # -1 THEN header ELSE remaining

\* the iteration `attempt` of the loop of execute, the operation having
\* settled with `outcome`
executeIteration(maxRetries, st, outcome) ==
    LET remaining == updateRateLimitFromHeaders(st.remaining, outcome.remaining)
    IN IF outcome.ok
       THEN [st EXCEPT !.phase = "returned", !.calls = @ + 1, !.last = outcome,
                       !.value = outcome.data, !.remaining = remaining]
       ELSE IF st.attempt < maxRetries /\ isRetryableError(outcome)
       THEN [st EXCEPT !.attempt = @ + 1, !.calls = @ + 1, !.last = outcome,
                       !.remaining = remaining]
       ELSE [st EXCEPT !.phase = "thrown", !.calls = @ + 1, !.last = outcome,
                       !.thrown = transformError(outcome), !.remaining = remaining]

NoOutcome ==
    [ok |-> FALSE, data |-> "", isError |-> FALSE, isClientError |-> FALSE,
     status |-> 0, message |-> "", remaining |-> -1]

\* what the operation can settle with
OperationOutcomes ==
    {[NoOutcome EXCEPT !.ok = TRUE, !.data = d, !.remaining = r] :
        d \in {"d1", "d2"}, r \in {-1, 5}}
    \cup {[NoOutcome EXCEPT !.isError = TRUE, !.status = c, !.remaining = r] :
        c \in {0, 401, 403, 404, 422, 429, 500, 502, 503, 504}, r \in {-1, 5}}
    \cup {[NoOutcome EXCEPT !.isError = TRUE, !.message = m] : m \in RetryableMessages}
    \cup {[NoOutcome EXCEPT !.isError = TRUE, !.isClientError = TRUE, !.status = 401],
          [NoOutcome EXCEPT !.status = 503]}

InitExecute ==
    /\ done = {}
    /\ relationships = <<>>
    /\ graph = EmptyGraph
    /\ cycles = <<>>
    /\ dag = FALSE
    /\ inputPath = ProjectAbs
    /\ excludeOpt = <<>>
    /\ includeExternal = FALSE
    /\ fileImports = NoContent
    /\ depOut = NoDepOut
    /\ mapOut = NoMapOut
    /\ callArgs \in [maxRetries : 0..MaxRetriesOption]
    /\ callResult = [phase |-> "running", attempt |-> 0, calls |-> 0,
                     last |-> NoOutcome, value |-> "", thrown |-> NoOutcome,
                     remaining |-> DefaultRemaining]

Execute ==
    /\ callResult.phase = "running"
    /\ callResult.attempt <= callArgs.maxRetries
    /\ \E outcome \in OperationOutcomes :
          callResult' = executeIteration(callArgs.maxRetries, callResult, outcome)
    /\ done' = IF callResult'.phase = "running" THEN done ELSE {"execute"}
    /\ UNCHANGED <<GraphVars, RepoVars, callArgs>>

NextExecute == Execute

SpecExecute == InitExecute /\ [][NextExecute]_vars

\* the operation and the delays are promises that settle
SpecExecuteFair == SpecExecute /\ WF_vars(Execute)

----------------------------------------------------------------------------
(* C25 *)

ExecuteEnded == "execute" \in done

\* a failure the statement calls retryable
RetryableFailure(o) ==
    ~o.ok /\ (o.status \in {429, 502, 503, 504}
              \/ o.message \in {"ECONNRESET", "ETIMEDOUT", "ENOTFOUND"})

ExecuteOutcomeIsSound ==
    /\ callResult.calls <= callArgs.maxRetries + 1
    /\ callResult.phase = "returned" =>
          callResult.last.ok /\ callResult.value = callResult.last.data
    /\ callResult.phase = "thrown" =>
          ~callResult.last.ok /\ callResult.thrown.isClientError
    /\ (callResult.calls >= 1 /\ ~callResult.last.ok /\ ~RetryableFailure(callResult.last)) =>
          callResult.phase = "thrown"

\* the operation is invoked again only after a retryable failure, and
\* nothing is invoked once execute has returned or thrown
ExecuteRetriesOnlyRetryable ==
    callResult'.calls > callResult.calls =>
       /\ callResult.phase = "running"
       /\ callResult.calls >= 1 => RetryableFailure(callResult.last)

\* C25: execute invokes the operation at most maxRetries + 1 times, invokes
\* it again only after a retryable failure, and always ends, either
\* returning the data of the first successful attempt or throwing a
\* GitHubClientError; a non-retryable failure is thrown at once.
C25_ExecuteRetriesBoundedAndEnds ==
    /\ [](ExecuteOutcomeIsSound)
    /\ [][ExecuteRetriesOnlyRetryable]_vars
    /\ <>ExecuteEnded

\* a success at the last permitted attempt, after retryable failures
C25_Witness ==
    /\ ExecuteEnded
    /\ callArgs.maxRetries = 2
    /\ callResult.calls = 3
    /\ callResult.phase = "returned"
    /\ callResult.value = "d2"

----------------------------------------------------------------------------
(* AnalyticsCache (git-analytics-mcp, utils/analytics)                      *)
(* Date.now() is the clock `now`, which only moves forward.  Besides the    *)
(* Map of the cache the state keeps, for each key, the most recent set      *)
(* since the last clear, and what the last get returned.                    *)

MaxClock == 3
MaxTTL == 2
CacheKeys == {"k1", "k2"}
CacheValues == {"v1", "v2"}

\* a key the Map holds no entry for
Absent == [present |-> FALSE, data |-> "", timestamp |-> 0]

\* a get that never looks at the age of the entry
cacheGetNoExpiry(cache, defaultTTL, now, key) ==
    [cache |-> cache, hit |-> cache[key].present, data |-> cache[key].data]

\* get(key): the Map afterwards and the value returned (hit FALSE: null)
cacheGet(cache, defaultTTL, now, key) ==
    LET entry == cache[key]
    IN IF ~entry.present
       THEN [cache |-> cache, hit |-> FALSE, data |-> ""]
       ELSE IF now - entry.timestamp > defaultTTL
       THEN [cache |-> [cache EXCEPT ![key] = Absent], hit |-> FALSE, data |-> ""]
       ELSE [cache |-> cache, hit |-> TRUE, data |-> entry.data]

\* set(key, data)
cacheSet(cache, now, key, data) ==
    [cache EXCEPT ![key] = [present |-> TRUE, data |-> data, timestamp |-> now]]

\* clear()
cacheClear(cache) == [k \in DOMAIN cache |-> Absent]

\* no get has been answered since the last other call
NoGet == [key |-> "", hit |-> FALSE, data |-> ""]

InitCache ==
    /\ done = {}
    /\ relationships = <<>>
    /\ graph = EmptyGraph
    /\ cycles = <<>>
    /\ dag = FALSE
    /\ inputPath = ProjectAbs
    /\ excludeOpt = <<>>
    /\ includeExternal = FALSE
    /\ fileImports = NoContent
    /\ depOut = NoDepOut
    /\ mapOut = NoMapOut
    /\ callArgs \in [defaultTTL : 0..MaxTTL]
    /\ callResult = [cache |-> [k \in CacheKeys |-> Absent],
                     latest |-> [k \in CacheKeys |-> Absent],
                     now |-> 0, got |-> NoGet]

CacheGet ==
    /\ \E k \in CacheKeys :
          LET r == cacheGet(callResult.cache, callArgs.defaultTTL, callResult.now, k)
          IN callResult' = [callResult EXCEPT
                               !.cache = r.cache,
                               !.got = [key |-> k, hit |-> r.hit, data |-> r.data]]
    /\ done' = done \cup {"get"}
    /\ UNCHANGED <<GraphVars, RepoVars, callArgs>>

CacheSet ==
    /\ \E k \in CacheKeys, v \in CacheValues :
          callResult' = [callResult EXCEPT
                            !.cache = cacheSet(callResult.cache, callResult.now, k, v),
                            !.latest[k] = [present |-> TRUE, data |-> v,
                                           timestamp |-> callResult.now],
                            !.got = NoGet]
    /\ done' = done \cup {"set"}
    /\ UNCHANGED <<GraphVars, RepoVars, callArgs>>

CacheClear ==
    /\ callResult' = [callResult EXCEPT
                         !.cache = cacheClear(callResult.cache),
                         !.latest = [k \in CacheKeys |-> Absent],
                         !.got = NoGet]
    /\ done' = done \cup {"clear"}
    /\ UNCHANGED <<GraphVars, RepoVars, callArgs>>

\* time passes between two calls
ClockTick ==
    /\ callResult.now < MaxClock
    /\ callResult' = [callResult EXCEPT !.now = @ + 1, !.got = NoGet]
    /\ UNCHANGED <<done, GraphVars, RepoVars, callArgs>>

NextCache == CacheGet \/ CacheSet \/ CacheClear \/ ClockTick

SpecCache == InitCache /\ [][NextCache]_vars

\* the last get answered with the latest set of its key when that set is not
\* older than the TTL and no clear came after it, and with null otherwise
GetReturnsLatestFreshSet ==
    callResult.got.key # "" =>
       LET l == callResult.latest[callResult.got.key]
       IN IF l.present /\ callResult.now - l.timestamp <= callArgs.defaultTTL
          THEN callResult.got.hit /\ callResult.got.data = l.data
          ELSE ~callResult.got.hit

\* a get deletes the entry of its key when that entry has expired and
\* changes nothing else in the Map
GetRemovesOnlyTheExpiredEntry ==
    callResult'.got.key # "" =>
       LET k == callResult'.got.key
           e == callResult.cache[k]
       IN IF e.present /\ callResult.now - e.timestamp > callArgs.defaultTTL
          THEN /\ ~callResult'.cache[k].present
               /\ \A j \in CacheKeys \ {k} : callResult'.cache[j] = callResult.cache[j]
          ELSE callResult'.cache = callResult.cache

\* C26: over every sequence of set, get and clear calls, get(k) returns the
\* value of the most recent set(k, v) when no clear happened since and at
\* most TTL milliseconds have passed since that set, and null otherwise; a
\* get on an expired entry removes that entry and leaves the entries of all
\* other keys as they were.
C26_GetReturnsFreshValueOrNull ==
    /\ [](GetReturnsLatestFreshSet)
    /\ [][GetRemovesOnlyTheExpiredEntry]_vars

\* a get of k1 answered null because its entry had expired, and removed it,
\* while the entry of k2 is still there
C26_Witness ==
    /\ callResult.got.key = "k1"
    /\ ~callResult.got.hit
    /\ callResult.latest["k1"].present
    /\ ~callResult.cache["k1"].present
    /\ callResult.cache["k2"].present

----------------------------------------------------------------------------
(* Cache keys of searchCommits and findBugIntroduction (git-analytics-mcp)  *)
(* An optional string is a record: defined FALSE is JavaScript's undefined. *)
(* What git answers for a set of filters is represented by those filters,   *)
(* so a cached entry records the call it was computed for.                  *)

DefaultTTL == 300000

Undefined == [defined |-> FALSE, value |-> ""]

Given(s) == [defined |-> TRUE, value |-> s]

RECURSIVE joinColon(_)
\* Array.prototype.join(':')
joinColon(parts) ==
    IF parts = <<>> THEN ""
    ELSE IF Len(parts) = 1 THEN parts[1].value
    ELSE parts[1].value \o ":" \o joinColon(Tail(parts))

\* generateKey(...parts): the parts that are not undefined, joined by ':'
generateKey(parts) == joinColon(SelectSeq(parts, LAMBDA p : p.defined))

\* the key searchCommits builds from its input
searchCommitsKey(input) ==
    generateKey(<<Given("commits"), Given(input.path), Given(input.query),
                  input.author, input.since, input.until>>)

\* the key findBugIntroduction builds from its input; since has a default
findBugIntroductionKey(input) ==
    generateKey(<<Given("bug-track"), Given(input.repoPath), Given(input.filePath),
                  input.pattern, Given(input.since)>>)

FilterValues == {Undefined, Given("x")}

SearchInputs ==
    [tool : {"search_commits"}, path : {"/r"}, query : {"q"},
     author : FilterValues, since : FilterValues, until : FilterValues]

BugInputs ==
    [tool : {"find_bug_introduction"}, repoPath : {"/r"}, filePath : {"f", "f:p"},
     pattern : {Undefined, Given("p")}, since : {"s"}]

keyOf(input) ==
    IF input.tool = "search_commits" THEN searchCommitsKey(input)
    ELSE findBugIntroductionKey(input)

AllKeys == {keyOf(i) : i \in SearchInputs \cup BugInputs}

NoCached == [key |-> "", cached |-> FALSE]

InitKeys ==
    /\ done = {}
    /\ relationships = <<>>
    /\ graph = EmptyGraph
    /\ cycles = <<>>
    /\ dag = FALSE
    /\ inputPath = ProjectAbs
    /\ excludeOpt = <<>>
    /\ includeExternal = FALSE
    /\ fileImports = NoContent
    /\ depOut = NoDepOut
    /\ mapOut = NoMapOut
    /\ callArgs = NoCached
    /\ callResult = [cache |-> [k \in AllKeys |-> Absent], last |-> NoCached]

\* one call of a cached tool: answer from the cache on a hit, otherwise
\* compute the answer for the filters of the input and store it
cachedCall(cache, input) ==
    LET cacheKey == keyOf(input)
        got == cacheGet(cache, DefaultTTL, 0, cacheKey)
    IN IF got.hit
       THEN [cache |-> got.cache,
             last |-> [key |-> cacheKey, cached |-> TRUE, computedFor |-> got.data]]
       ELSE [cache |-> cacheSet(got.cache, 0, cacheKey, input),
             last |-> [key |-> cacheKey, cached |-> FALSE, computedFor |-> input]]

SearchCommits ==
    /\ \E input \in SearchInputs :
          /\ callArgs' = input
          /\ callResult' = cachedCall(callResult.cache, input)
    /\ done' = done \cup {"search_commits"}
    /\ UNCHANGED <<GraphVars, RepoVars>>

FindBugIntroduction ==
    /\ \E input \in BugInputs :
          /\ callArgs' = input
          /\ callResult' = cachedCall(callResult.cache, input)
    /\ done' = done \cup {"find_bug_introduction"}
    /\ UNCHANGED <<GraphVars, RepoVars>>

NextKeys == SearchCommits \/ FindBugIntroduction

SpecKeys == InitKeys /\ [][NextKeys]_vars

\* C29: two searchCommits calls, and two findBugIntroduction calls, whose
\* inputs differ in a cached dimension use different cache keys, so a result
\* answered from the cache was computed for a call with the same filters,
\* also when optional filters are absent.
C29_CachedResultHasSameFilters ==
    (callResult.last.key # "" /\ callResult.last.cached) =>
        callResult.last.computedFor = callArgs

\* a searchCommits call filtered by since alone is answered with the result
\* computed for a call filtered by author alone
C29_Witness ==
    /\ callResult.last.key = "commits:/r:q:x"
    /\ callResult.last.cached
    /\ callArgs.author = Undefined
    /\ callArgs.since = Given("x")
    /\ callResult.last.computedFor.author = Given("x")
    /\ callResult.last.computedFor.since = Undefined

----------------------------------------------------------------------------
(* The grouping strategies of the module mapper                             *)
(* A pattern /\/(a|b)\//i tests '/' + relative path: it matches when some   *)
(* directory segment of the relative path is, ignoring case, one of the     *)
(* alternatives.  The packageCache of groupByPackage memoises findPackage   *)
(* per file and does not change what it returns.                            *)

MaxGroupDepth == 2

FeaturePatterns ==
    <<[names |-> {"api", "route", "routes", "endpoint", "endpoints", "handler", "handlers"},
       group |-> "api"],
      [names |-> {"model", "models", "entitie", "entities", "schema", "schemas"},
       group |-> "models"],
      [names |-> {"service", "services", "business", "domain"}, group |-> "services"],
      [names |-> {"util", "utils", "helper", "helpers", "lib", "common"},
       group |-> "utilities"],
      [names |-> {"component", "components", "ui", "view", "views", "page", "pages"},
       group |-> "ui"],
      [names |-> {"test", "tests", "spec", "__tests__"}, group |-> "tests"],
      [names |-> {"config", "setting", "settings", "constant", "constants"},
       group |-> "config"],
      [names |-> {"middleware", "middlewares"}, group |-> "middleware"],
      [names |-> {"repositorie", "repositories", "data", "db", "database"},
       group |-> "data"]>>

LayerPatterns ==
    <<[names |-> {"controller", "controllers", "api", "route", "routes", "handler",
                  "handlers", "endpoint", "endpoints"},
       group |-> "presentation"],
      [names |-> {"service", "services", "business", "domain", "usecase", "usecases"},
       group |-> "business"],
      [names |-> {"repositorie", "repositories", "data", "db", "database", "model",
                  "models"},
       group |-> "data"],
      [names |-> {"infrastructure", "external", "adapter", "adapters"},
       group |-> "infrastructure"],
      [names |-> {"util", "utils", "helper", "helpers", "lib", "common", "shared"},
       group |-> "utility"]>>

\* the lower-case form of a directory name (the names of GroupPool)
toLowerCase(name) ==
    IF name = "API" THEN "api" ELSE IF name = "Utils" THEN "utils" ELSE name

\* pattern.test('/' + relativePath)
patternTest(pattern, relativePath) ==
    \E i \in 1..(Len(relativePath) - 1) : toLowerCase(relativePath[i]) \in pattern.names

RECURSIVE firstPattern(_, _, _, _)
\* the loop over the patterns: the group of the first one that matches
firstPattern(patterns, relativePath, i, default) ==
    IF i > Len(patterns) THEN default
    ELSE IF patternTest(patterns[i], relativePath) THEN patterns[i].group
    ELSE firstPattern(patterns, relativePath, i + 1, default)

\* dir.startsWith(basePath), for a directory on the way up from a scanned
\* file: such a directory is basePath followed by whole segments, or shorter
startsWith(dir, basePath) ==
    /\ Len(dir) >= Len(basePath)
    /\ SubSeq(dir, 1, Len(basePath)) = basePath

RECURSIVE findPackageFrom(_, _, _)
\* the while loop of findPackage, at directory dir
findPackageFrom(present, basePath, dir) ==
    IF ~startsWith(dir, basePath) THEN "root"
    ELSE IF \/ existsIn(present, join(dir, "package.json"))
            \/ existsIn(present, join(dir, "__init__.py"))
            \/ existsIn(present, join(dir, "setup.py"))
    THEN LET packageName == joinSlash(relative(basePath, dir))
         IN IF packageName = "" THEN "root" ELSE packageName
    ELSE IF dirname(dir) = dir THEN "root"
    ELSE findPackageFrom(present, basePath, dirname(dir))

findPackage(present, basePath, filePath) ==
    findPackageFrom(present, basePath, dirname(filePath))

\* a grouping loop that keeps only the file pushed last into each group
groupByNamesLast(files, names) ==
    LET used == {names[i] : i \in DOMAIN files}
        order == CHOOSE q \in [1..Cardinality(used) -> used] :
                    \A a, b \in DOMAIN q : a # b => q[a] # q[b]
    IN [j \in DOMAIN order |->
          [name |-> order[j],
           modules |-> <<files[CHOOSE i \in DOMAIN files :
                                 /\ names[i] = order[j]
                                 /\ \A k \in DOMAIN files : names[k] = order[j] => k <= i]>>]]

RECURSIVE groupByNamesFrom(_, _, _, _)
\* for (const file of files): create the group of its name when new, push
groupByNamesFrom(files, names, i, groups) ==
    IF i > Len(files) THEN groups
    ELSE LET k == IF \E j \in DOMAIN groups : groups[j].name = names[i]
                  THEN CHOOSE j \in DOMAIN groups : groups[j].name = names[i]
                  ELSE 0
             groups1 == IF k = 0
                        THEN Append(groups, [name |-> names[i], modules |-> <<files[i]>>])
                        ELSE [groups EXCEPT ![k].modules = Append(@, files[i])]
         IN groupByNamesFrom(files, names, i + 1, groups1)

groupByNames(files, names) == groupByNamesFrom(files, names, 1, <<>>)

groupByPackage(present, files, basePath) ==
    groupByNames(files, [i \in DOMAIN files |-> findPackage(present, basePath, files[i])])

groupByFeature(files, basePath) ==
    groupByNames(files, [i \in DOMAIN files |->
        firstPattern(FeaturePatterns, relative(basePath, files[i]), 1, "other")])

groupByLayer(files, basePath) ==
    groupByNames(files, [i \in DOMAIN files |->
        firstPattern(LayerPatterns, relative(basePath, files[i]), 1, "unknown")])

\* switch (groupBy) of mapModuleRelationships
groupFiles(groupBy, present, files, basePath, depth) ==
    IF groupBy = "package" THEN groupByPackage(present, files, basePath)
    ELSE IF groupBy = "feature" THEN groupByFeature(files, basePath)
    ELSE IF groupBy = "layer" THEN groupByLayer(files, basePath)
    ELSE groupByDirectory(files, basePath, depth)

GroupByOptions == {"directory", "package", "feature", "layer"}

\* the source files of the scanned tree, relative to the input path
GroupPool ==
    <<<<"main.ts">>, <<"API", "h.ts">>, <<"models", "m.ts">>, <<"Utils", "u.ts">>,
      <<"misc", "x.ts">>, <<"api", "models", "n.ts">>>>

\* package markers that may exist, the first one above the input path
MarkerPool ==
    {Cwd \o <<"package.json">>, ProjectAbs \o <<"package.json">>,
     ProjectAbs \o <<"api", "__init__.py">>,
     ProjectAbs \o <<"api", "models", "setup.py">>}

\* the scanned file list: path.join(inputPath, ...) of each file found
scannedOf(basePath, chosen) ==
    LET kept == SelectSeq(GroupPool, LAMBDA f : f \in chosen)
    IN [i \in DOMAIN kept |-> basePath \o kept[i]]

InitGroups ==
    /\ done = {}
    /\ relationships = <<>>
    /\ graph = EmptyGraph
    /\ cycles = <<>>
    /\ dag = FALSE
    /\ inputPath \in {ProjectAbs, ProjectRel}
    /\ excludeOpt = <<>>
    /\ includeExternal = FALSE
    /\ fileImports = NoContent
    /\ depOut = NoDepOut
    /\ mapOut = NoMapOut
    /\ \E groupBy \in GroupByOptions, depth \in 0..MaxGroupDepth,
          chosen \in SUBSET SeqToSet(GroupPool), present \in SUBSET MarkerPool :
          callArgs = [groupBy |-> groupBy, depth |-> depth, present |-> present,
                      files |-> scannedOf(inputPath, chosen)]
    /\ callResult = <<>>

GroupFiles ==
    /\ "groupFiles" \notin done
    /\ callResult' = groupFiles(callArgs.groupBy, callArgs.present, callArgs.files,
                                inputPath, callArgs.depth)
    /\ done' = done \cup {"groupFiles"}
    /\ UNCHANGED <<GraphVars, RepoVars, callArgs>>

NextGroups == GroupFiles

SpecGroups == InitGroups /\ [][NextGroups]_vars

GroupsDone == "groupFiles" \in done

\* the groups a file is listed in, with multiplicity
PlacesOf(file) ==
    {<<j, k>> \in (DOMAIN callResult) \X (1..Len(callArgs.files)) :
        k <= Len(callResult[j].modules) /\ callResult[j].modules[k] = file}

\* some directory segment of the file, below the input path, is named by a pattern
MatchesSome(patterns, file) ==
    \E i \in DOMAIN patterns :
       \E d \in SeqToSet(dirname(relative(inputPath, file))) :
          toLowerCase(d) \in patterns[i].names

ResidualOf(groupBy) == IF groupBy = "feature" THEN "other" ELSE "unknown"

PatternsOf(groupBy) == IF groupBy = "feature" THEN FeaturePatterns ELSE LayerPatterns

\* C30: each of the four grouping strategies partitions the scanned files:
\* every scanned file is in exactly one group, no group is empty, the group
\* sizes add up to the number of scanned files, and a file matching none of
\* the feature or layer patterns is in the group 'other' resp. 'unknown'.
C30_GroupingPartitionsScannedFiles ==
    GroupsDone =>
       /\ \A i \in DOMAIN callArgs.files : Cardinality(PlacesOf(callArgs.files[i])) = 1
       /\ \A j \in DOMAIN callResult : callResult[j].modules # <<>>
       /\ \A j, k \in DOMAIN callResult : j # k => callResult[j].name # callResult[k].name
       /\ SumSeq([j \in DOMAIN callResult |-> Len(callResult[j].modules)])
             = Len(callArgs.files)
       /\ callArgs.groupBy \in {"feature", "layer"} =>
             \A i \in DOMAIN callArgs.files :
                ~MatchesSome(PatternsOf(callArgs.groupBy), callArgs.files[i]) =>
                   \E j \in DOMAIN callResult :
                      /\ callResult[j].name = ResidualOf(callArgs.groupBy)
                      /\ includes(callResult[j].modules, callArgs.files[i])

\* all six files grouped by feature: two in 'api', two in 'other'
C30_Witness ==
    /\ GroupsDone
    /\ callArgs.groupBy = "feature"
    /\ Len(callArgs.files) = Len(GroupPool)
    /\ \E j \in DOMAIN callResult :
          callResult[j].name = "api" /\ Len(callResult[j].modules) = 2
    /\ \E j \in DOMAIN callResult :
          /\ callResult[j].name = "other"
          /\ callResult[j].modules
                = <<inputPath \o <<"main.ts">>, inputPath \o <<"misc", "x.ts">>>>

----------------------------------------------------------------------------
(* C28 *)

CallDone == done = {"callTool"}

PathFormTools == {"detect_circular_dependencies", "map_module_relationships"}

\* the answer the same call gives when the directory is written absolute
AbsoluteAnswer ==
    callTool(callArgs.name, readableContent(fileImports, callArgs.unreadable),
             ProjectAbs, excludeOpt)

\* two answers of detect_circular_dependencies report the same cycles
SameCycles(rel, abs) ==
    /\ rel.hasCycles = abs.hasCycles
    /\ rel.totalCycles = abs.totalCycles
    /\ rel.summary = abs.summary
    /\ {resolve(rel.affectedFiles[i]) : i \in DOMAIN rel.affectedFiles}
          = SeqToSet(abs.affectedFiles)

\* two answers of map_module_relationships give each file the same counts
SameCoupling(rel, abs) ==
    /\ {resolve(f) : f \in DOMAIN rel.couplingMetrics} = DOMAIN abs.couplingMetrics
    /\ \A f \in DOMAIN rel.couplingMetrics :
          /\ rel.couplingMetrics[f].afferentCoupling
                = abs.couplingMetrics[resolve(f)].afferentCoupling
          /\ rel.couplingMetrics[f].efferentCoupling
                = abs.couplingMetrics[resolve(f)].efferentCoupling

\* C28: for the same directory contents, detectCircularDependencies and
\* mapModuleRelationships give the same cycles and the same coupling counts
\* whether the input path is written absolute or relative: source and target
\* of every relationship have the path form of the scanned file list, so two
\* files that import each other are reported as a cycle.
C28_AnswerIndependentOfPathForm ==
    (CallDone /\ inputPath = ProjectRel /\ callArgs.name \in PathFormTools) =>
        IF callArgs.name = "detect_circular_dependencies"
        THEN SameCycles(callResult.result, AbsoluteAnswer.result)
        ELSE /\ SameCoupling(callResult.result, AbsoluteAnswer.result)
             /\ \A i \in DOMAIN callResult.result.relationships :
                   isAbsolute(callResult.result.relationships[i].source)
                      = isAbsolute(callResult.result.relationships[i].target)

\* a.ts and types.ts import each other; with the directory written relative
\* no cycle is reported, with the directory written absolute one is
C28_Witness ==
    /\ CallDone
    /\ inputPath = ProjectRel
    /\ callArgs.name = "detect_circular_dependencies"
    /\ callArgs.unreadable = {}
    /\ ~callResult.result.hasCycles
    /\ AbsoluteAnswer.result.totalCycles = 1

====
